---- MODULE Spec2Model ----
(***************************************************************************)
(* Model of the XO (tic-tac-toe) wager bot: the XOGame match object of     *)
(* game_logic.py (make_move, check_winner, is_board_full, bot_move,        *)
(* minimax), and the XOBot handlers of bot.py that create a match (play,   *)
(* play_bot) and settle it (handle_game_over) over the users and games     *)
(* tables of database.py, and the PaymentProcessor of payment.py           *)
(* (deposits, withdrawals and their approval) over the users and           *)
(* transactions tables.                                                    *)
(***************************************************************************)
EXTENDS Integers, Sequences, FiniteSets, TLC

VARIABLES
    game,          \* an XOGame object (game_logic.py:5-14)
    last,          \* the last call made and what it returned
    active_games,  \* XOBot.active_games: game_id -> XOGame (bot.py:27)
    users,         \* the users table: user_id -> points, wins, losses, draws
    games,         \* the games table, row i holding game_id i
    transactions,  \* the transactions table, row i holding transaction_id i
    calls          \* the calls in progress: call -> its position and locals

vars == <<game, last, active_games, users, games, transactions, calls>>

bot_vars == <<active_games, users, games, transactions, calls>>

\* Python's None, as a value comparable with the marks.
None == "None"

\* game_logic.py:11 -- the nine cells, indexed 0..8 in row-major order.
Cells == 0..8

Empty == " "

Marks == {"X", "O"}

\* game_logic.py:5-14 -- XOGame.__init__.
XOGame(player1_id, player2_id, bet_amount, against_bot) ==
    [player1_id   |-> player1_id,
     player2_id   |-> player2_id,
     bet_amount   |-> bet_amount,
     against_bot  |-> against_bot,
     board        |-> [i \in Cells |-> Empty],
     current_turn |-> "X",
     winner       |-> None,
     game_over    |-> FALSE]

\* game_logic.py:31-49 -- XOGame.check_winner: the three rows, the three
\* columns and the two diagonals, in the order the code examines them; the mark
\* of the first complete line, None when no line is complete.
check_winner(board) ==
    IF board[0] = board[1] /\ board[1] = board[2] /\ board[2] # Empty THEN board[0]
    ELSE IF board[3] = board[4] /\ board[4] = board[5] /\ board[5] # Empty THEN board[3]
    ELSE IF board[6] = board[7] /\ board[7] = board[8] /\ board[8] # Empty THEN board[6]
    ELSE IF board[0] = board[3] /\ board[3] = board[6] /\ board[6] # Empty THEN board[0]
    ELSE IF board[1] = board[4] /\ board[4] = board[7] /\ board[7] # Empty THEN board[1]
    ELSE IF board[2] = board[5] /\ board[5] = board[8] /\ board[8] # Empty THEN board[2]
    ELSE IF board[0] = board[4] /\ board[4] = board[8] /\ board[8] # Empty THEN board[0]
    ELSE IF board[2] = board[4] /\ board[4] = board[6] /\ board[6] # Empty THEN board[2]
    ELSE None

\* game_logic.py:51-53 -- XOGame.is_board_full.
is_board_full(board) == \A i \in Cells : board[i] # Empty

\* The applied move of make_move without `or self.is_board_full()`.
applied_without_draw(g, position, symbol) ==
    LET board  == [g.board EXCEPT ![position] = symbol]
        winner == check_winner(board)
    IN  [ret  |-> TRUE,
         game |-> [g EXCEPT
                     !.board        = board,
                     !.current_turn = IF symbol = "X" THEN "O" ELSE "X",
                     !.winner       = winner,
                     !.game_over    = (winner # None)]]

\* game_logic.py:21-29 -- make_move once its guard has passed: the mark is
\* written, the turn flips, winner and game_over are recomputed, True is
\* returned.
applied(g, position, symbol) ==
    LET board  == [g.board EXCEPT ![position] = symbol]
        winner == check_winner(board)
    IN  [ret  |-> TRUE,
         game |-> [g EXCEPT
                     !.board        = board,
                     !.current_turn = IF symbol = "X" THEN "O" ELSE "X",
                     !.winner       = winner,
                     !.game_over    = (winner # None) \/ is_board_full(board)]]

\* make_move without the test `self.board[position] != ' '`.
make_move_onto_mark(g, position, symbol) ==
    IF \/ g.game_over
       \/ ~(0 <= position /\ position < 9)
       \/ symbol # g.current_turn
    THEN [ret |-> FALSE, game |-> g]
    ELSE applied(g, position, symbol)

\* make_move without the test `self.game_over`.
make_move_after_over(g, position, symbol) ==
    IF \/ ~(0 <= position /\ position < 9)
       \/ g.board[position] # Empty
       \/ symbol # g.current_turn
    THEN [ret |-> FALSE, game |-> g]
    ELSE applied(g, position, symbol)

\* make_move without the test `symbol != self.current_turn`.
make_move_any_turn(g, position, symbol) ==
    IF \/ g.game_over
       \/ ~(0 <= position /\ position < 9)
       \/ g.board[position] # Empty
    THEN [ret |-> FALSE, game |-> g]
    ELSE applied(g, position, symbol)

\* game_logic.py:16-29 -- XOGame.make_move: the return value and the match
\* after the call.
make_move(g, position, symbol) ==
    IF \/ g.game_over
       \/ ~(0 <= position /\ position < 9)
       \/ g.board[position] # Empty
       \/ symbol # g.current_turn
    THEN [ret |-> FALSE, game |-> g]
    ELSE applied(g, position, symbol)

\* game_logic.py:66 -- the empty cells of a board.
empty_positions(board) == {i \in Cells : board[i] = Empty}

\* game_logic.py:110 -- max(score, best_score) folded over the loop from
\* -float('inf'): the greatest of the scores.
max(scores) == CHOOSE m \in scores : \A y \in scores : y <= m

\* game_logic.py:119 -- min(score, best_score) folded over the loop from
\* float('inf'): the least of the scores.
min(scores) == CHOOSE m \in scores : \A y \in scores : y >= m

\* game_logic.py:88-120 -- XOGame.minimax. The loops of lines 105-110 and
\* 114-119 try every empty cell, recurse and restore the cell.
RECURSIVE minimax(_, _, _)
minimax(board, depth, is_maximizing) ==
    LET winner == check_winner(board)
    IN  IF winner = "O" THEN 10 - depth
        ELSE IF winner = "X" THEN depth - 10
        ELSE IF is_board_full(board) THEN 0
        ELSE IF is_maximizing
        THEN max({minimax([board EXCEPT ![i] = "O"], depth + 1, FALSE) :
                    i \in empty_positions(board)})
        ELSE min({minimax([board EXCEPT ![i] = "X"], depth + 1, TRUE) :
                    i \in empty_positions(board)})

\* game_logic.py:75 -- the score bot_move gives to the empty cell i.
score(board, i) == minimax([board EXCEPT ![i] = "O"], 0, FALSE)

\* game_logic.py:69 -- -float('inf'): below every score (scores lie in -10..10).
NegInf == -1000

\* game_logic.py:69-80 -- the search loop of bot_move from cell i on, with the
\* best_score and best_move found so far; best_move is a set, {} being None.
RECURSIVE search_from(_, _, _, _)
search_from(board, i, best_score, best_move) ==
    IF i >= 9 THEN best_move
    ELSE IF board[i] = Empty
    THEN LET s == score(board, i)
         IN  IF s > best_score
             THEN search_from(board, i + 1, s, {i})
             ELSE search_from(board, i + 1, best_score, best_move)
    ELSE search_from(board, i + 1, best_score, best_move)

\* The search loop with `score < best_score` from float('inf'): the first cell
\* of the least score.
RECURSIVE search_lowest_from(_, _, _, _)
search_lowest_from(board, i, best_score, best_move) ==
    IF i >= 9 THEN best_move
    ELSE IF board[i] = Empty
    THEN LET s == score(board, i)
         IN  IF s < best_score
             THEN search_lowest_from(board, i + 1, s, {i})
             ELSE search_lowest_from(board, i + 1, best_score, best_move)
    ELSE search_lowest_from(board, i + 1, best_score, best_move)

search_lowest(board) == search_lowest_from(board, 0, -NegInf, {})

\* The search replaced by the first empty cell.
search_first_empty(board) ==
    IF empty_positions(board) = {} THEN {}
    ELSE {CHOOSE i \in empty_positions(board) : \A j \in empty_positions(board) : i <= j}

\* The search loop with `score >= best_score`: the last cell of the greatest
\* score.
RECURSIVE search_last_from(_, _, _, _)
search_last_from(board, i, best_score, best_move) ==
    IF i >= 9 THEN best_move
    ELSE IF board[i] = Empty
    THEN LET s == score(board, i)
         IN  IF s >= best_score
             THEN search_last_from(board, i + 1, s, {i})
             ELSE search_last_from(board, i + 1, best_score, best_move)
    ELSE search_last_from(board, i + 1, best_score, best_move)

search_last(board) == search_last_from(board, 0, NegInf, {})

\* game_logic.py:69-80 -- best_move after the loop.
search(board) == search_from(board, 0, NegInf, {})

Count(board, mark) == Cardinality({i \in Cells : board[i] = mark})

\* The boards on which bot_move can reach its search: O to move after X began,
\* no complete line and an empty cell left.
SearchBoards ==
    {b \in [Cells -> {Empty, "X", "O"}] :
        /\ Count(b, "X") = Count(b, "O") + 1
        /\ check_winner(b) = None
        /\ ~is_board_full(b)}

\* game_logic.py:69-80 -- search(b), evaluated once for every board of
\* SearchBoards (@@ makes the function explicit, so that it is not recomputed
\* in every state).
best_move_of == [b \in SearchBoards |-> search(b)] @@ <<>>

\* bot_move past its guard without the test `self.board.count(' ') >= 8`:
\* the random choice is open on every board.
bot_plays_random_any(g) ==
    LET opening ==
            {[ret |-> {p}, branch |-> "random", game |-> g] :
                p \in empty_positions(g.board)}
        best_move == best_move_of[g.board]
        searched ==
            IF best_move # {}
            THEN {[ret    |-> best_move,
                   branch |-> "search",
                   game   |-> make_move(g, CHOOSE i \in best_move : TRUE, "O").game]}
            ELSE {[ret |-> {}, branch |-> "none", game |-> g]}
    IN  opening \cup searched

\* game_logic.py:64-86 -- bot_move once its guard (line 61) has passed.
bot_plays(g) ==
    LET opening ==
            IF Count(g.board, Empty) >= 8
            THEN {[ret |-> {p}, branch |-> "random", game |-> g] :
                     p \in empty_positions(g.board)}
            ELSE {}
        best_move == best_move_of[g.board]
        searched ==
            IF best_move # {}
            THEN {[ret    |-> best_move,
                   branch |-> "search",
                   game   |-> make_move(g, CHOOSE i \in best_move : TRUE, "O").game]}
            ELSE {[ret |-> {}, branch |-> "none", game |-> g]}
    IN  opening \cup searched

\* bot_move without the test `not self.against_bot`.
bot_move_in_any_match(g) ==
    IF g.current_turn # "O" \/ g.game_over
    THEN {[ret |-> {}, branch |-> "guard", game |-> g]}
    ELSE bot_plays(g)

\* game_logic.py:59-86 -- XOGame.bot_move: the outcomes of one call. ret is the
\* returned position as a set ({} is None); branch names the return statement
\* taken. random.random() < 0.3 and random.choice are choices of the
\* environment, so the opening branch yields one outcome per empty cell and
\* the search branch stays possible beside it.
bot_move(g) ==
    IF ~g.against_bot \/ g.current_turn # "O" \/ g.game_over
    THEN {[ret |-> {}, branch |-> "guard", game |-> g]}
    ELSE bot_plays(g)

(***************************************************************************)
(* The match object under arbitrary callers: any make_move and any         *)
(* bot_move call, in any order.                                            *)
(***************************************************************************)

\* How far off either end of the board the positions passed to make_move go.
OffBoard == 1

\* The positions a caller passes to make_move: the cells and the positions
\* next to them off the board.
Positions == (0 - OffBoard)..(8 + OffBoard)

\* install.py:70 -- min_bet = 10, the default of config.MIN_BET.
MIN_BET == 10

\* install.py:71 -- max_bet = 5000, the default of config.MAX_BET.
MAX_BET == 5000

\* bot.py:148-151, 209-213 -- the wager the match was created with.
Bet == MIN_BET

\* bot.py:148-151 (play) and bot.py:209-213 (play_bot): the two ways the bot
\* constructs a match.
NewGames == {XOGame("u1", None, Bet, FALSE), XOGame("u1", None, Bet, TRUE)}

NoCall == [op |-> "new", position |-> 0, symbol |-> "", accepted |-> FALSE,
           played |-> {}, branch |-> ""]

\* database.py:68 -- points INT DEFAULT 100.
InitialPoints == 100

\* The participants who create, join and play matches.
Players == {"u1", "u2"}

\* The participants, all registered (bot.py:54-59, database.py:124-139): the
\* players and one participant who takes part in no match.
Users == Players \cup {"u3"}

\* database.py:63-76 -- the users table after every participant has registered.
NewUsers == [u \in Users |-> [points |-> InitialPoints, wins |-> 0, losses |-> 0, draws |-> 0]]

\* An XOBot with no match yet (bot.py:27) over freshly initialised tables.
InitBot ==
    /\ active_games = <<>>
    /\ users = NewUsers
    /\ games = <<>>
    /\ transactions = <<>>
    /\ calls = <<>>

Init ==
    /\ game \in NewGames
    /\ last = NoCall
    /\ InitBot

\* A call game.make_move(position, symbol); last records the call and what it
\* returned.
MakeMove(position, symbol) ==
    LET r == make_move(game, position, symbol)
    IN  /\ game' = r.game
        /\ last' = [op |-> "make_move", position |-> position, symbol |-> symbol,
                    accepted |-> r.ret, played |-> {}, branch |-> ""]
        /\ UNCHANGED bot_vars

\* A call game.bot_move(); last records what it returned and by which branch.
BotMove ==
    \E out \in bot_move(game) :
        /\ game' = out.game
        /\ last' = [op |-> "bot_move", position |-> 0, symbol |-> "",
                    accepted |-> FALSE, played |-> out.ret, branch |-> out.branch]
        /\ UNCHANGED bot_vars

Next ==
    \/ \E position \in Positions, symbol \in Marks : MakeMove(position, symbol)
    \/ BotMove

Spec == Init /\ [][Next]_vars

(***************************************************************************)
(* A match against the bot as it is played: the human holds X and submits  *)
(* any position, every O mark comes from bot_move.                         *)
(***************************************************************************)

InitBotMatch ==
    /\ game = XOGame("u1", None, Bet, TRUE)
    /\ last = NoCall
    /\ InitBot

NextBotMatch ==
    \/ \E position \in Positions : MakeMove(position, "X")
    \/ BotMove

SpecBotMatch == InitBotMatch /\ [][NextBotMatch]_vars

\* The number of marks on a board, which is the number of moves accepted so far.
MarksOn(board) == 9 - Count(board, Empty)

\* The symbol the (n+1)-th accepted move carries when symbols alternate from X.
NthSymbol(n) == IF n % 2 = 0 THEN "X" ELSE "O"

\* The mark of the k-th move of a match, X moving first.
NthMark(k) == NthSymbol(k - 1)

(***************************************************************************)
(* XOBot: matches are created by play and play_bot, played through         *)
(* make_move and bot_move, and settled by handle_game_over.                *)
(***************************************************************************)

\* The game ids the games table hands out (AUTO_INCREMENT from 1) before the
\* model stops creating matches.
MaxGames == 1

GameIds == 1..MaxGames

\* The wagers a player asks for: the least valid one, the one below it, and the
\* greatest valid one, which no balance of the model covers.
BetArgs == {MIN_BET - 1, MIN_BET, MAX_BET}

\* database.py:161-176 -- Database.create_game when the INSERT succeeds: the
\* new row, whose game_id is its index.
create_game(player1_id, bet_amount) ==
    Append(games, [player1_id |-> player1_id, player2_id |-> None,
                   bet_amount |-> bet_amount, winner_id |-> None,
                   status |-> "pending"])

BotCall(op, game_id, result) == [op |-> op, game_id |-> game_id, result |-> result]

\* bot.py:109-168 (play) and bot.py:170-216 (play_bot), which differ in the
\* against_bot flag of the match only. The wager is validated against the
\* limits and against the balance, and is not debited; create_game may fail.
NewMatch(op, user, bet_amount, against_bot) ==
    IF ~(MIN_BET <= bet_amount /\ bet_amount <= MAX_BET)
    THEN /\ last' = BotCall(op, 0, "invalid_bet")
         /\ UNCHANGED <<game, bot_vars>>
    ELSE IF users[user].points < bet_amount
    THEN /\ last' = BotCall(op, 0, "not_enough_points")
         /\ UNCHANGED <<game, bot_vars>>
    ELSE \/ /\ last' = BotCall(op, 0, "create_failed")
            /\ UNCHANGED <<game, bot_vars>>
         \/ /\ Len(games) < MaxGames
            /\ games' = create_game(user, bet_amount)
            /\ active_games' =
                 (Len(games') :> XOGame(user, None, bet_amount, against_bot))
                     @@ active_games
            /\ last' = BotCall(op, Len(games'), "created")
            /\ UNCHANGED <<game, users, transactions, calls>>

Play(user, bet_amount) == NewMatch("play", user, bet_amount, FALSE)

PlayBot(user, bet_amount) == NewMatch("play_bot", user, bet_amount, TRUE)

\* join_game (called at bot.py:65, not defined in bot.py), after the state
\* machine of the match: a second participant takes seat B of a match between
\* humans that waits for one.
JoinGame(user, game_id) ==
    /\ game_id \in DOMAIN active_games
    /\ ~active_games[game_id].against_bot
    /\ active_games[game_id].player2_id = None
    /\ active_games[game_id].player1_id # user
    /\ active_games' = [active_games EXCEPT ![game_id].player2_id = user]
    /\ games' = [games EXCEPT ![game_id].player2_id = user, ![game_id].status = "active"]
    /\ last' = BotCall("join_game", game_id, "joined")
    /\ UNCHANGED <<game, users, transactions, calls>>

\* The board after the first n moves of the move sequence s, X moving first.
BoardAfter(s, n) ==
    [i \in Cells |->
        IF \E k \in 1..n : s[k] = i
        THEN NthMark(CHOOSE k \in 1..n : s[k] = i)
        ELSE Empty]

\* The matches the players play: a win of X, a win of O and a draw between
\* humans, and a loss and a draw of X against the replies of the bot's search.
Scripts ==
    { <<0, 3, 1, 4, 2>>,
      <<0, 3, 1, 4, 8, 5>>,
      <<0, 1, 2, 4, 3, 5, 7, 6, 8>>,
      <<0, 4, 1, 2, 3, 6>>,
      <<0, 4, 1, 2, 6, 3, 5, 7, 8>> }

\* The positions a player submits on a board: the next move of every script
\* the board is a stage of.
ScriptedPositions(board) ==
    {s[MarksOn(board) + 1] : s \in
        {t \in Scripts : /\ MarksOn(board) < Len(t)
                         /\ board = BoardAfter(t, MarksOn(board))}}

\* handle_move (called at bot.py:378, not defined in bot.py), after
\* submitMove: the acting seat's mark is X for seat A and O for seat B, and
\* the move goes through make_move.
HandleMove(user, game_id, position) ==
    /\ game_id \in DOMAIN active_games
    /\ LET g      == active_games[game_id]
           symbol == IF user = g.player1_id THEN "X"
                     ELSE IF user = g.player2_id THEN "O"
                     ELSE None
           r      == make_move(g, position, symbol)
       IN  /\ active_games' = [active_games EXCEPT ![game_id] = r.game]
           /\ last' = BotCall("handle_move", game_id,
                              IF r.ret THEN "accepted" ELSE "rejected")
    /\ UNCHANGED <<game, users, games, transactions, calls>>

\* The dispatcher asks the match for the bot's move (game_logic.py:59-86).
RequestBotMove(game_id) ==
    /\ game_id \in DOMAIN active_games
    /\ \E out \in bot_move(active_games[game_id]) :
          /\ active_games' = [active_games EXCEPT ![game_id] = out.game]
          /\ last' = BotCall("bot_move", game_id, out.branch)
    /\ UNCHANGED <<game, users, games, transactions, calls>>

\* UPDATE users SET <field> = <field> + 1 WHERE user_id = <user_id>
\* (database.py:200-221): no row matches a NULL user_id.
add_one(table, user_id, field) ==
    IF user_id \in Users
    THEN [table EXCEPT ![user_id][field] = @ + 1]
    ELSE table

\* database.py:180-192 -- the UPDATE of complete_game on the row of game_id.
completed_row(row, winner) ==
    [row EXCEPT !.status = "completed",
                !.winner_id = IF winner = "X" THEN row.player1_id
                              ELSE IF winner = "O" THEN row.player2_id
                              ELSE None]

\* database.py:178-226 -- Database.complete_game: the tables after the call,
\* one outcome for every query at which the database may raise Error (each
\* query commits by itself, so the queries before the failing one stay), and
\* one outcome for the call that completes.
complete_game(game_id, winner) ==
    LET updated == IF game_id \in DOMAIN games
                   THEN [games EXCEPT ![game_id] = completed_row(games[game_id], winner)]
                   ELSE games
        row     == updated[game_id]
        first   == IF winner = "X" THEN add_one(users, row.player1_id, "wins")
                   ELSE IF winner = "O" THEN add_one(users, row.player2_id, "wins")
                   ELSE add_one(add_one(users, row.player1_id, "draws"),
                                row.player2_id, "draws")
        second  == IF winner = "X" THEN add_one(first, row.player2_id, "losses")
                   ELSE IF winner = "O" THEN add_one(first, row.player1_id, "losses")
                   ELSE first
    IN  IF game_id \notin DOMAIN games
        THEN {[games |-> games, users |-> users]}
        ELSE { [games |-> games,   users |-> users],
               [games |-> updated, users |-> users],
               [games |-> updated, users |-> first],
               [games |-> updated, users |-> second] }

\* Database.transfer_points (called at bot.py:320, not defined in
\* database.py), after the ledger's transfer(from, to, amount): both legs or
\* neither, and the ledger may be unavailable.
transfer_points(table, from_id, to_id, amount) ==
    { [result |-> "transfer_ok",
       users  |-> [table EXCEPT ![from_id].points = @ - amount,
                                ![to_id].points = @ + amount]],
      [result |-> "transfer_failed", users |-> table] }

\* True in Python's `if winner_id and loser_id` (bot.py:319).
Truthy(id) == id # None

\* seats with the two branches exchanged.
seats_exchanged(g) ==
    IF g.winner = "X"
    THEN [winner_id |-> IF ~g.against_bot THEN g.player2_id ELSE None,
          loser_id  |-> g.player1_id]
    ELSE IF g.winner = "O"
    THEN [winner_id |-> g.player1_id,
          loser_id  |-> IF ~g.against_bot THEN g.player2_id ELSE None]
    ELSE [winner_id |-> None, loser_id |-> None]

\* seats without the draw branch: whatever is not a win of X counts as a win
\* of O.
seats_without_draw(g) ==
    IF g.winner = "X"
    THEN [winner_id |-> g.player1_id,
          loser_id  |-> IF ~g.against_bot THEN g.player2_id ELSE None]
    ELSE [winner_id |-> IF ~g.against_bot THEN g.player2_id ELSE None,
          loser_id  |-> g.player1_id]

\* bot.py:308-317 -- winner_id and loser_id of handle_game_over.
seats(g) ==
    IF g.winner = "X"
    THEN [winner_id |-> g.player1_id,
          loser_id  |-> IF ~g.against_bot THEN g.player2_id ELSE None]
    ELSE IF g.winner = "O"
    THEN [winner_id |-> IF ~g.against_bot THEN g.player2_id ELSE None,
          loser_id  |-> g.player1_id]
    ELSE [winner_id |-> None, loser_id |-> None]

\* handle_game_over without `del self.active_games[game_id]`.
handle_game_over_keeps_match(game_id) ==
    IF game_id \notin DOMAIN active_games
    THEN {[result |-> "absent", active_games |-> active_games,
           users |-> users, games |-> games]}
    ELSE LET g   == active_games[game_id]
             ids == seats(g)
         IN  UNION {
               IF Truthy(ids.winner_id) /\ Truthy(ids.loser_id)
               THEN {[result |-> t.result, active_games |-> active_games,
                      users |-> t.users, games |-> db.games] :
                        t \in transfer_points(db.users, ids.loser_id,
                                              ids.winner_id, g.bet_amount)}
               ELSE {[result |-> "no_transfer", active_games |-> active_games,
                      users |-> db.users, games |-> db.games]}
               : db \in complete_game(game_id, g.winner) }

\* bot.py:298-327 -- XOBot.handle_game_over: the outcomes of one call. The
\* result of complete_game is not read; the transfer is issued when both ids
\* are set and its result is not read; the match is then removed. The closing
\* show_game_board returns at once, the match being gone (bot.py:220-221).
handle_game_over(game_id) ==
    IF game_id \notin DOMAIN active_games
    THEN {[result |-> "absent", active_games |-> active_games,
           users |-> users, games |-> games]}
    ELSE LET g       == active_games[game_id]
             ids     == seats(g)
             removed == [i \in DOMAIN active_games \ {game_id} |-> active_games[i]]
         IN  UNION {
               IF Truthy(ids.winner_id) /\ Truthy(ids.loser_id)
               THEN {[result |-> t.result, active_games |-> removed,
                      users |-> t.users, games |-> db.games] :
                        t \in transfer_points(db.users, ids.loser_id,
                                              ids.winner_id, g.bet_amount)}
               ELSE {[result |-> "no_transfer", active_games |-> removed,
                      users |-> db.users, games |-> db.games]}
               : db \in complete_game(game_id, g.winner) }

\* The dispatcher hands a match to settlement once it is over; a call for an
\* id that is not in active_games (a repeated or late call) is possible too.
HandleGameOver(game_id) ==
    /\ game_id \in DOMAIN active_games => active_games[game_id].game_over
    /\ \E out \in handle_game_over(game_id) :
          /\ active_games' = out.active_games
          /\ users' = out.users
          /\ games' = out.games
          /\ last' = BotCall("handle_game_over", game_id, out.result)
    /\ UNCHANGED <<game, transactions, calls>>

InitXOBot ==
    /\ game = XOGame("u1", None, Bet, FALSE)
    /\ last = BotCall("new", 0, "")
    /\ InitBot

NextXOBot ==
    \/ \E user \in Players, bet_amount \in BetArgs : Play(user, bet_amount)
    \/ \E user \in Players, bet_amount \in BetArgs : PlayBot(user, bet_amount)
    \/ \E user \in Players, game_id \in GameIds : JoinGame(user, game_id)
    \/ \E user \in Players, game_id \in GameIds :
          /\ game_id \in DOMAIN active_games
          /\ \E position \in ScriptedPositions(active_games[game_id].board) :
                HandleMove(user, game_id, position)
    \/ \E game_id \in GameIds : RequestBotMove(game_id)
    \/ \E game_id \in GameIds : HandleGameOver(game_id)

SpecXOBot == InitXOBot /\ [][NextXOBot]_vars

(***************************************************************************)
(* Properties of the match object                                          *)
(***************************************************************************)


\* The eight winning lines, as sets of cells.
WinLines ==
    {{0, 1, 2}, {3, 4, 5}, {6, 7, 8}, {0, 3, 6}, {1, 4, 7}, {2, 5, 8},
     {0, 4, 8}, {2, 4, 6}}

\* The marks that hold some complete line of the board.
CompleteMarks(board) ==
    {m \in Marks : \E l \in WinLines : \A i \in l : board[i] = m}

\* The cells whose filling with m completes a line of m.
WinningCells(board, m) ==
    {i \in empty_positions(board) : m \in CompleteMarks([board EXCEPT ![i] = m])}

\* C1: in every step, a cell that holds a mark keeps it; a step that changes
\* the board writes exactly one cell, which was empty, with the symbol that
\* alternation from X gives to that move; and an accepted make_move call wrote
\* its own symbol into its own position, which was empty.
C1_AlternateOneEmptyCell ==
    [][/\ \A i \in Cells : game.board[i] # Empty => game'.board[i] = game.board[i]
       /\ game'.board # game.board =>
            \E p \in Cells :
                /\ game.board[p] = Empty
                /\ game'.board =
                     [game.board EXCEPT ![p] = NthSymbol(MarksOn(game.board))]
       /\ (last'.op = "make_move" /\ last'.accepted) =>
            /\ last'.position \in Cells
            /\ game.board[last'.position] = Empty
            /\ last'.symbol = NthSymbol(MarksOn(game.board))
            /\ game'.board = [game.board EXCEPT ![last'.position] = last'.symbol]
      ]_vars

\* C1 witness: an accepted make_move of O as the fourth move of a match.
C1_Witness ==
    /\ last.op = "make_move"
    /\ last.accepted
    /\ last.symbol = "O"
    /\ MarksOn(game.board) = 4
    /\ game.board[last.position] = "O"

\* C2: on every reachable board at most one mark holds a complete line, and
\* check_winner returns that mark (None when there is none), whichever line
\* is examined first.
C2_OneWinnerAtMost ==
    /\ Cardinality(CompleteMarks(game.board)) <= 1
    /\ \A m \in Marks :
         check_winner(game.board) = m <=> m \in CompleteMarks(game.board)
    /\ check_winner(game.board) = None <=> CompleteMarks(game.board) = {}

\* C2 witness: a board with a complete O line and three or more X marks.
C2_Witness ==
    /\ "O" \in CompleteMarks(game.board)
    /\ Count(game.board, "X") >= 3

\* C3: from a state with game_over, every call leaves the match as it was,
\* make_move returns False and bot_move returns None.
C3_OverIsAbsorbing ==
    [][game.game_over =>
         /\ game' = game
         /\ last'.op = "make_move" => ~last'.accepted
         /\ last'.op = "bot_move" => last'.played = {}
      ]_vars

\* C3 witness: on a finished match, a make_move with the symbol of the turn on
\* an empty cell was refused.
C3_Witness ==
    /\ game.game_over
    /\ last.op = "make_move"
    /\ ~last.accepted
    /\ last.position \in Cells
    /\ game.board[last.position] = Empty
    /\ last.symbol = game.current_turn

\* The guard of make_move fails for (position, symbol) on a match still open.
InvalidMove(g, position, symbol) ==
    \/ position \notin Cells
    \/ g.board[position] # Empty
    \/ symbol # g.current_turn

\* C4: a make_move call with a position outside 0..8, an occupied cell or a
\* symbol that is not current_turn returns False and leaves the match as it was.
C4_InvalidMoveRejected ==
    [][(last'.op = "make_move" /\ InvalidMove(game, last'.position, last'.symbol)) =>
         /\ ~last'.accepted
         /\ game' = game
      ]_vars

\* C4 witness: a refused make_move, on an open match, for each of the three
\* reasons taken alone is reachable; this one is the occupied cell.
C4_Witness ==
    /\ last.op = "make_move"
    /\ ~last.accepted
    /\ ~game.game_over
    /\ last.position \in Cells
    /\ game.board[last.position] # Empty
    /\ last.symbol = game.current_turn

\* C5: in a match against the bot whose O marks all come from the search of
\* bot_move, X never wins: a finished match is an O win or a draw.
C5_BotNeverLoses ==
    /\ game.winner # "X"
    /\ "X" \notin CompleteMarks(game.board)
    /\ game.game_over => (game.winner = "O" \/ (game.winner = None /\ is_board_full(game.board)))

\* C5 witness: a match the bot has won, and O's last mark came from the search.
C5_Witness ==
    /\ game.game_over
    /\ game.winner = "O"
    /\ last.op = "bot_move"
    /\ last.branch = "search"

\* C6: when the search branch of bot_move runs on a board where some empty
\* cell completes an O line, it plays such a cell and the match is over with
\* winner O.
C6_TakesImmediateWin ==
    [][(last'.op = "bot_move" /\ last'.branch = "search"
          /\ WinningCells(game.board, "O") # {}) =>
         /\ last'.played \subseteq WinningCells(game.board, "O")
         /\ last'.played # {}
         /\ game'.game_over
         /\ game'.winner = "O"
      ]_vars

\* C6 witness: the search has just played the move that wins the match for O.
C6_Witness ==
    /\ last.op = "bot_move"
    /\ last.branch = "search"
    /\ last.played # {}
    /\ game.winner = "O"
    /\ game.game_over

\* C7 (the claim as stated): whenever bot_move returns a position, on either
\* branch, that cell was empty and now holds O, no other cell differs, and
\* the turn is no longer O unless the game is over.
C7_ReturnedMoveIsApplied ==
    [][(last'.op = "bot_move" /\ last'.played # {}) =>
         \A p \in last'.played :
            /\ game.board[p] = Empty
            /\ game'.board = [game.board EXCEPT ![p] = "O"]
            /\ (game'.current_turn # "O" \/ game'.game_over)
      ]_vars

\* C8: bot_move returns None and leaves the match as it was when the match is
\* not against the bot, when the turn is not O or when the game is over; in
\* every other reachable state it returns a position.
C8_BotMoveGuard ==
    [][last'.op = "bot_move" =>
         IF ~game.against_bot \/ game.current_turn # "O" \/ game.game_over
         THEN last'.played = {} /\ game' = game
         ELSE last'.played # {} /\ last'.played \subseteq Cells
      ]_vars

\* C8 witness: bot_move returned None on an open match between humans at O's
\* turn.
C8_Witness ==
    /\ last.op = "bot_move"
    /\ last.played = {}
    /\ ~game.against_bot
    /\ game.current_turn = "O"
    /\ ~game.game_over

(***************************************************************************)
(* Properties of settlement                                                *)
(***************************************************************************)

\* The step is a handle_game_over call for a match that is in active_games.
Settles(game_id) ==
    /\ last'.op = "handle_game_over"
    /\ last'.game_id = game_id
    /\ game_id \in DOMAIN active_games

\* The seat of the mark that has won the match, and the other seat.
WinningSeat(g) == IF g.winner = "X" THEN g.player1_id ELSE g.player2_id

LosingSeat(g) == IF g.winner = "X" THEN g.player2_id ELSE g.player1_id

C10_TransferIffHumanWin ==
    [][\A game_id \in GameIds :
         (Settles(game_id) /\ active_games[game_id].game_over) =>
            LET g == active_games[game_id]
            IN  /\ last'.result \in {"transfer_ok", "transfer_failed"}
                     <=> (g.winner \in Marks /\ ~g.against_bot)
                /\ (g.winner = None \/ g.against_bot) =>
                     /\ last'.result = "no_transfer"
                     /\ \A u \in Users : users'[u].points = users[u].points
      ]_vars

\* C10 witness: a drawn match between humans and a match the bot has won have
\* been settled without a transfer; this is the draw, recorded in the games
\* table with both seats and no winner.
C10_Witness ==
    /\ last.op = "handle_game_over"
    /\ last.result = "no_transfer"
    /\ last.game_id \in DOMAIN games
    /\ games[last.game_id].status = "completed"
    /\ games[last.game_id].player2_id \in Users
    /\ games[last.game_id].winner_id = None
    /\ users[games[last.game_id].player1_id].draws = 1

(***************************************************************************)
(* The fee arithmetic of payment.py: int(amount * (fee_percentage / 100)), *)
(* computed as Python computes it, in IEEE 754 binary64 with rounding to   *)
(* nearest, ties to even. A float x >= 0 is held as the natural number     *)
(* x * 2^60, written as five digits in base 2^20, most significant first   *)
(* (the integers of TLC have 32 bits), of which at most MantissaBits       *)
(* leading binary digits are significant. This covers the quotients n / d  *)
(* of naturals n < 2^20 and 0 < d < 2^10 that are 0 or at least 2^-7 and   *)
(* their products with naturals below 2^10.                                *)
(***************************************************************************)

\* The significand of a Python float (a binary64) has 53 binary digits.
MantissaBits == 53

Base == 2^20

\* The number of binary digits of a natural number below Base.
BitLength(n) ==
    IF n = 0 THEN 0 ELSE CHOOSE L \in 1..20 : 2^(L - 1) <= n /\ n < 2^L

\* The number of binary digits of a five-digit number.
Length(x) ==
    IF \A i \in 1..5 : x[i] = 0 THEN 0
    ELSE LET k == CHOOSE i \in 1..5 : x[i] # 0 /\ \A j \in 1..(i - 1) : x[j] = 0
         IN  BitLength(x[k]) + 20 * (5 - k)

\* The five-digit number with the carries taken to the next digit.
Carried(x) ==
    LET d5 == x[5]
        d4 == x[4] + d5 \div Base
        d3 == x[3] + d4 \div Base
        d2 == x[2] + d3 \div Base
        d1 == x[1] + d2 \div Base
    IN  <<d1, d2 % Base, d3 % Base, d4 % Base, d5 % Base>>

\* The five-digit number times the natural k.
Times(x, k) == Carried([i \in 1..5 |-> x[i] * k])

\* Long division of the five-digit number by the natural d: quotient and
\* remainder.
LongDiv(x, d) ==
    LET t1 == x[1]
        t2 == (t1 % d) * Base + x[2]
        t3 == (t2 % d) * Base + x[3]
        t4 == (t3 % d) * Base + x[4]
        t5 == (t4 % d) * Base + x[5]
    IN  [q |-> <<t1 \div d, t2 \div d, t3 \div d, t4 \div d, t5 \div d>>,
         r |-> t5 % d]

\* The float nearest to x + f, where 0 <= f < 1 and sticky tells whether
\* f > 0: the first MantissaBits binary digits of x, rounded to nearest, a tie
\* going to the even significand. The digits dropped lie in the last digit of x.
Round(x, sticky) ==
    LET s == Length(x) - MantissaBits
    IN  IF s <= 0 THEN x
        ELSE LET unit    == 2^s
                 half    == 2^(s - 1)
                 dropped == x[5] % unit
                 odd     == IF s < 20 THEN (x[5] \div unit) % 2 = 1
                                      ELSE x[4] % 2 = 1
                 up      == \/ dropped > half
                            \/ dropped = half /\ (sticky \/ odd)
             IN  Carried([x EXCEPT ![5] = x[5] - dropped + (IF up THEN unit ELSE 0)])

\* Python's n / d for naturals n and d > 0: the float nearest to the quotient.
true_div(n, d) ==
    LET res == LongDiv(<<0, n, 0, 0, 0>>, d)
    IN  Round(res.q, res.r # 0)

\* Python's k * f for a natural k and a float f: k converts to a float without
\* loss, and the product is rounded once.
float_times(k, f) == Round(Times(f, k), FALSE)

\* Python's int(f) for a float f >= 0: the digits before the binary point.
int_of(f) == f[1] * Base + f[2]

\* The fee in exact integer arithmetic, floor(amount * fee_percentage / 100).
fee_floor(amount, fee_percentage) == (amount * fee_percentage) \div 100

\* payment.py:53 and payment.py:82 -- int(amount * (self.fee_percentage / 100)).
fee_of(amount, fee_percentage) ==
    int_of(float_times(amount, true_div(fee_percentage, 100)))

\* The greatest amount whose fee is computed.
MaxAmount == 50

\* install.py:55 -- the fee percentage is kept within 0..100.
FeePercents == 0..100

FeeCall(op, amount, fee_percentage, fee, net_amount) ==
    [op |-> op, amount |-> amount, fee_percentage |-> fee_percentage,
     fee |-> fee, net_amount |-> net_amount]

\* An amount and a configured fee percentage, no fee computed yet.
InitFee ==
    /\ \E amount \in 1..MaxAmount, fee_percentage \in FeePercents :
          last = FeeCall("input", amount, fee_percentage, 0, 0)
    /\ game = XOGame("u1", None, Bet, FALSE)
    /\ InitBot

\* payment.py:52-54 -- fee and net_amount of process_withdrawal.
FeeAtRequest ==
    /\ last.op = "input"
    /\ LET fee == fee_of(last.amount, last.fee_percentage)
       IN  last' = FeeCall("process_withdrawal", last.amount, last.fee_percentage,
                           fee, last.amount - fee)
    /\ UNCHANGED <<game, bot_vars>>

\* payment.py:81-82 -- fee of approve_withdrawal, from the amount of the record.
FeeAtApproval ==
    /\ last.op = "input"
    /\ LET fee == fee_of(last.amount, last.fee_percentage)
       IN  last' = FeeCall("approve_withdrawal", last.amount, last.fee_percentage,
                           fee, last.amount - fee)
    /\ UNCHANGED <<game, bot_vars>>

NextFee == FeeAtRequest \/ FeeAtApproval

SpecFee == InitFee /\ [][NextFee]_vars

(***************************************************************************)
(* PaymentProcessor: deposits, withdrawal requests and their approval or   *)
(* rejection, over the users and transactions tables. Every call of the    *)
(* database may fail; a call that failed has changed nothing.              *)
(***************************************************************************)

\* install.py:51 -- transaction_fee = 5, the default of config.TRANSACTION_FEE.
TRANSACTION_FEE == 5

\* The rows the transactions table holds before the model stops adding rows.
MaxTransactions == 3

\* The balance above which the model stops rejecting withdrawals: a refund
\* whose status update fails can be repeated without end.
MaxPoints == 150

\* The transaction ids an admin submits: those of the rows and unknown ones.
TransactionIds == 1..MaxTransactions

\* The participant who deposits and withdraws; the others' balances are there
\* to be left alone.
Payers == {"u1"}

\* The amounts a participant asks for: none, one the initial balance covers and
\* one it does not cover.
AmountArgs == {0, 40, 150}

\* database.py:233-251 -- Database.record_transaction: the id of the new row
\* (AUTO_INCREMENT from 1) and the table with it, or None (written 0) and the
\* table as it was.
record_transaction(table, user_id, amount, transaction_type, status) ==
    { [id |-> Len(table) + 1,
       transactions |-> Append(table, [user_id |-> user_id, amount |-> amount,
                                       type |-> transaction_type, status |-> status])],
      [id |-> 0, transactions |-> table] }

\* database.py:152-159 -- Database.update_user_points: True and the balance
\* moved by amount, or False and the table as it was.
update_user_points(table, user_id, amount) ==
    { [ok |-> TRUE, users |-> [table EXCEPT ![user_id].points = @ + amount]],
      [ok |-> FALSE, users |-> table] }

\* database.py:263-270 -- Database.update_transaction_status: True and the
\* status set, or False and the table as it was.
update_transaction_status(table, transaction_id, status) ==
    { [ok |-> TRUE, transactions |-> [table EXCEPT ![transaction_id].status = status]],
      [ok |-> FALSE, transactions |-> table] }

\* Database.get_transaction (called at payment.py:77 and payment.py:97, not
\* defined in database.py), after getTransaction: the row of the id, as a set,
\* {} being None.
get_transaction(transaction_id) ==
    IF transaction_id \in DOMAIN transactions
    THEN {transactions[transaction_id]}
    ELSE {}

\* The outcome of a PaymentProcessor call: what it returned and the tables
\* after it.
Outcome(ret, transaction_id, users_after, transactions_after) ==
    [ret |-> ret, transaction_id |-> transaction_id,
     users |-> users_after, transactions |-> transactions_after]

\* payment.py:18-40 -- PaymentProcessor.process_deposit: the outcomes of one
\* call. The record is written first and stays when the credit fails.
process_deposit(user_id, amount) ==
    IF amount <= 0
    THEN {Outcome("None", 0, users, transactions)}
    ELSE UNION {
           IF rec.id = 0
           THEN {Outcome("None", 0, users, rec.transactions)}
           ELSE {Outcome(IF up.ok THEN "id" ELSE "None",
                         IF up.ok THEN rec.id ELSE 0,
                         up.users, rec.transactions) :
                    up \in update_user_points(users, user_id, amount)}
           : rec \in record_transaction(transactions, user_id, amount,
                                        "deposit", "completed") }

\* process_withdrawal holding the net amount instead of the amount.
process_withdrawal_holds_net(user_id, amount) ==
    IF amount <= 0
    THEN {Outcome("None", 0, users, transactions)}
    ELSE {Outcome("raised", 0, users, transactions)} \cup
         IF users[user_id].points < amount
         THEN {Outcome("None", 0, users, transactions)}
         ELSE UNION {
                IF rec.id = 0
                THEN {Outcome("None", 0, users, rec.transactions)}
                ELSE {Outcome(IF up.ok THEN "id" ELSE "None",
                              IF up.ok THEN rec.id ELSE 0,
                              up.users, rec.transactions) :
                         up \in update_user_points(users, user_id,
                                  0 - (amount - fee_of(amount, TRANSACTION_FEE)))}
                : rec \in record_transaction(transactions, user_id, amount,
                                             "withdrawal", "pending") }

\* process_withdrawal without the test `user_points < amount`.
process_withdrawal_unchecked(user_id, amount) ==
    IF amount <= 0
    THEN {Outcome("None", 0, users, transactions)}
    ELSE {Outcome("raised", 0, users, transactions)} \cup
         UNION {
           IF rec.id = 0
           THEN {Outcome("None", 0, users, rec.transactions)}
           ELSE {Outcome(IF up.ok THEN "id" ELSE "None",
                         IF up.ok THEN rec.id ELSE 0,
                         up.users, rec.transactions) :
                    up \in update_user_points(users, user_id, 0 - amount)}
           : rec \in record_transaction(transactions, user_id, amount,
                                        "withdrawal", "pending") }

\* payment.py:42-73 -- PaymentProcessor.process_withdrawal: the outcomes of one
\* call. get_user_points (database.py:146-150) raises when its query fails;
\* every participant of the model is registered, so it never returns None.
process_withdrawal(user_id, amount) ==
    IF amount <= 0
    THEN {Outcome("None", 0, users, transactions)}
    ELSE {Outcome("raised", 0, users, transactions)} \cup
         IF users[user_id].points < amount
         THEN {Outcome("None", 0, users, transactions)}
         ELSE UNION {
                IF rec.id = 0
                THEN {Outcome("None", 0, users, rec.transactions)}
                ELSE {Outcome(IF up.ok THEN "id" ELSE "None",
                              IF up.ok THEN rec.id ELSE 0,
                              up.users, rec.transactions) :
                         up \in update_user_points(users, user_id, 0 - amount)}
                : rec \in record_transaction(transactions, user_id, amount,
                                             "withdrawal", "pending") }

\* payment.py:78 and payment.py:98 -- the test both admin operations make on
\* the row they have read.
not_pending_withdrawal(found) ==
    \/ found = {}
    \/ \E transaction \in found :
          transaction.type # "withdrawal" \/ transaction.status # "pending"

\* approve_withdrawal deducting the fee from the balance.
approve_withdrawal_debits_fee(transaction_id) ==
    LET found == get_transaction(transaction_id)
    IN  IF not_pending_withdrawal(found)
        THEN {Outcome("False", transaction_id, users, transactions)}
        ELSE LET transaction == transactions[transaction_id]
                 fee == fee_of(transaction.amount, TRANSACTION_FEE)
             IN  UNION {
                   {Outcome(IF st.ok THEN "True" ELSE "False", transaction_id,
                            [users EXCEPT ![transaction.user_id].points = @ - fee],
                            st.transactions) :
                       st \in update_transaction_status(rec.transactions,
                                                        transaction_id, "completed")}
                   : rec \in record_transaction(transactions, transaction.user_id, fee,
                                                "fee", "completed") }

\* approve_withdrawal without the test on the status of the row.
approve_withdrawal_any_status(transaction_id) ==
    LET found == get_transaction(transaction_id)
    IN  IF found = {} \/ transactions[transaction_id].type # "withdrawal"
        THEN {Outcome("False", transaction_id, users, transactions)}
        ELSE LET transaction == transactions[transaction_id]
                 fee == fee_of(transaction.amount, TRANSACTION_FEE)
             IN  UNION {
                   {Outcome(IF st.ok THEN "True" ELSE "False", transaction_id,
                            users, st.transactions) :
                       st \in update_transaction_status(rec.transactions,
                                                        transaction_id, "completed")}
                   : rec \in record_transaction(transactions, transaction.user_id, fee,
                                                "fee", "completed") }

\* payment.py:75-93 -- PaymentProcessor.approve_withdrawal: the outcomes of one
\* call. The result of writing the fee record is not read.
approve_withdrawal(transaction_id) ==
    LET found == get_transaction(transaction_id)
    IN  IF not_pending_withdrawal(found)
        THEN {Outcome("False", transaction_id, users, transactions)}
        ELSE LET transaction == transactions[transaction_id]
                 fee == fee_of(transaction.amount, TRANSACTION_FEE)
             IN  UNION {
                   {Outcome(IF st.ok THEN "True" ELSE "False", transaction_id,
                            users, st.transactions) :
                       st \in update_transaction_status(rec.transactions,
                                                        transaction_id, "completed")}
                   : rec \in record_transaction(transactions, transaction.user_id, fee,
                                                "fee", "completed") }

\* reject_withdrawal refunding the net amount.
reject_withdrawal_refunds_net(transaction_id) ==
    LET found == get_transaction(transaction_id)
    IN  IF not_pending_withdrawal(found)
        THEN {Outcome("False", transaction_id, users, transactions)}
        ELSE LET transaction == transactions[transaction_id]
             IN  UNION {
                   IF ~up.ok
                   THEN {Outcome("False", transaction_id, users, transactions)}
                   ELSE {Outcome(IF st.ok THEN "True" ELSE "False", transaction_id,
                                 up.users, st.transactions) :
                            st \in update_transaction_status(transactions,
                                                             transaction_id, "rejected")}
                   : up \in update_user_points(users, transaction.user_id,
                              transaction.amount
                                - fee_of(transaction.amount, TRANSACTION_FEE)) }

\* payment.py:95-106 -- PaymentProcessor.reject_withdrawal: the outcomes of one
\* call. The refund is made before the status is set and stays when setting
\* the status fails.
reject_withdrawal(transaction_id) ==
    LET found == get_transaction(transaction_id)
    IN  IF not_pending_withdrawal(found)
        THEN {Outcome("False", transaction_id, users, transactions)}
        ELSE LET transaction == transactions[transaction_id]
             IN  UNION {
                   IF ~up.ok
                   THEN {Outcome("False", transaction_id, users, transactions)}
                   ELSE {Outcome(IF st.ok THEN "True" ELSE "False", transaction_id,
                                 up.users, st.transactions) :
                            st \in update_transaction_status(transactions,
                                                             transaction_id, "rejected")}
                   : up \in update_user_points(users, transaction.user_id,
                                               transaction.amount) }

\* What last holds after a PaymentProcessor call: the call, what it returned,
\* and the balance of user_id when the call began.
PayCall(op, user_id, amount, transaction_id, ret, before) ==
    [op |-> op, user_id |-> user_id, amount |-> amount,
     transaction_id |-> transaction_id, ret |-> ret, before |-> before]

\* The participant a transaction id belongs to, None for an unknown id.
OwnerOf(transaction_id) ==
    IF transaction_id \in DOMAIN transactions
    THEN transactions[transaction_id].user_id
    ELSE None

PointsOf(user_id) == IF user_id \in Users THEN users[user_id].points ELSE 0

ProcessDeposit(user_id, amount) ==
    /\ Len(transactions) < MaxTransactions
    /\ \E out \in process_deposit(user_id, amount) :
          /\ users' = out.users
          /\ transactions' = out.transactions
          /\ last' = PayCall("process_deposit", user_id, amount,
                             out.transaction_id, out.ret, users[user_id].points)
    /\ UNCHANGED <<game, active_games, games, calls>>

ProcessWithdrawal(user_id, amount) ==
    /\ Len(transactions) < MaxTransactions
    /\ \E out \in process_withdrawal(user_id, amount) :
          /\ users' = out.users
          /\ transactions' = out.transactions
          /\ last' = PayCall("process_withdrawal", user_id, amount,
                             out.transaction_id, out.ret, users[user_id].points)
    /\ UNCHANGED <<game, active_games, games, calls>>

ApproveWithdrawal(transaction_id) ==
    /\ Len(transactions) < MaxTransactions
    /\ \E out \in approve_withdrawal(transaction_id) :
          /\ users' = out.users
          /\ transactions' = out.transactions
          /\ last' = PayCall("approve_withdrawal", OwnerOf(transaction_id), 0,
                             transaction_id, out.ret,
                             PointsOf(OwnerOf(transaction_id)))
    /\ UNCHANGED <<game, active_games, games, calls>>

RejectWithdrawal(transaction_id) ==
    /\ PointsOf(OwnerOf(transaction_id)) <= MaxPoints
    /\ \E out \in reject_withdrawal(transaction_id) :
          /\ users' = out.users
          /\ transactions' = out.transactions
          /\ last' = PayCall("reject_withdrawal", OwnerOf(transaction_id), 0,
                             transaction_id, out.ret,
                             PointsOf(OwnerOf(transaction_id)))
    /\ UNCHANGED <<game, active_games, games, calls>>

InitPayment ==
    /\ game = XOGame("u1", None, Bet, FALSE)
    /\ last = PayCall("new", None, 0, 0, "", 0)
    /\ InitBot

NextPayment ==
    \/ \E user_id \in Payers, amount \in AmountArgs : ProcessDeposit(user_id, amount)
    \/ \E user_id \in Payers, amount \in AmountArgs : ProcessWithdrawal(user_id, amount)
    \/ \E transaction_id \in TransactionIds : ApproveWithdrawal(transaction_id)
    \/ \E transaction_id \in TransactionIds : RejectWithdrawal(transaction_id)

SpecPayment == InitPayment /\ [][NextPayment]_vars

(***************************************************************************)
(* Properties of the payment pipeline                                      *)
(***************************************************************************)

\* The row of the id is a withdrawal that waits for the admin's decision.
IsPendingWithdrawal(transaction_id) ==
    /\ transaction_id \in DOMAIN transactions
    /\ transactions[transaction_id].type = "withdrawal"
    /\ transactions[transaction_id].status = "pending"

\* The rows of a table that record a fee.
FeeRecords(table) == {i \in DOMAIN table : table[i].type = "fee"}

\* C11: a process_withdrawal call that returns a transaction id has lowered
\* the participant's balance by the whole amount in that same step, has left
\* every other balance alone, and has added exactly one row, a pending
\* withdrawal of that amount whose id it returns.
C11_WithdrawalHoldsFullAmount ==
    [][(last'.op = "process_withdrawal" /\ last'.ret = "id") =>
         /\ users'[last'.user_id].points = users[last'.user_id].points - last'.amount
         /\ \A u \in Users \ {last'.user_id} : users'[u] = users[u]
         /\ transactions' =
              Append(transactions,
                     [user_id |-> last'.user_id, amount |-> last'.amount,
                      type |-> "withdrawal", status |-> "pending"])
         /\ last'.transaction_id = Len(transactions')
      ]_vars

\* C11 witness: a withdrawal of 40 from the initial balance has just been
\* accepted; the balance is 60 and the record is pending.
C11_Witness ==
    /\ last.op = "process_withdrawal"
    /\ last.ret = "id"
    /\ last.amount = 40
    /\ users[last.user_id].points = InitialPoints - 40
    /\ transactions[last.transaction_id].status = "pending"
    /\ transactions[last.transaction_id].amount = 40

\* C12: a reject_withdrawal call that returns True has credited the owner of
\* the record with exactly the amount of the record, has set the record to
\* rejected and has written no other row, so no fee record; when it follows
\* the successful process_withdrawal that made the record, the balance is back
\* at its value before the withdrawal.
C12_RejectRestoresBalance ==
    [][(last'.op = "reject_withdrawal" /\ last'.ret = "True") =>
         LET t == last'.transaction_id
         IN  /\ t \in DOMAIN transactions
             /\ users'[transactions[t].user_id].points =
                  users[transactions[t].user_id].points + transactions[t].amount
             /\ \A u \in Users \ {transactions[t].user_id} : users'[u] = users[u]
             /\ transactions' = [transactions EXCEPT ![t].status = "rejected"]
             /\ FeeRecords(transactions') = FeeRecords(transactions)
             /\ (/\ last.op = "process_withdrawal"
                 /\ last.ret = "id"
                 /\ last.transaction_id = t) =>
                    users'[last.user_id].points = last.before
      ]_vars

\* C12 witness: the only row is a rejected withdrawal of 40, and the balance is
\* the initial one again.
C12_Witness ==
    /\ last.op = "reject_withdrawal"
    /\ last.ret = "True"
    /\ Len(transactions) = 1
    /\ transactions[1].type = "withdrawal"
    /\ transactions[1].amount = 40
    /\ transactions[1].status = "rejected"
    /\ users[transactions[1].user_id].points = InitialPoints

\* C13: an approve_withdrawal call, whatever it returns, changes no row of the
\* users table: the balance stays what the withdrawal request left.
C13_ApproveLeavesBalances ==
    [][last'.op = "approve_withdrawal" => users' = users]_vars

\* C13 witness: a withdrawal of 40 has been approved; its fee record of 2 is
\* written and the balance is still the 60 the request left.
C13_Witness ==
    /\ last.op = "approve_withdrawal"
    /\ last.ret = "True"
    /\ transactions[last.transaction_id].status = "completed"
    /\ transactions[last.transaction_id].amount = 40
    /\ \E i \in FeeRecords(transactions) : transactions[i].amount = 2
    /\ users[last.user_id].points = InitialPoints - 40

\* C14: an approve or reject call on an id whose row is not a pending
\* withdrawal returns False and changes no balance and no row; a call that
\* returns True found a pending withdrawal and leaves it not pending; and a
\* row that is not a pending withdrawal never changes again. So at most one
\* call on an id returns True.
C14_DecidedOnce ==
    [][/\ (last'.op \in {"approve_withdrawal", "reject_withdrawal"}
             /\ ~IsPendingWithdrawal(last'.transaction_id)) =>
            /\ last'.ret = "False"
            /\ users' = users
            /\ transactions' = transactions
       /\ (last'.op \in {"approve_withdrawal", "reject_withdrawal"}
             /\ last'.ret = "True") =>
            /\ IsPendingWithdrawal(last'.transaction_id)
            /\ transactions'[last'.transaction_id].status # "pending"
       /\ \A t \in DOMAIN transactions :
            ~IsPendingWithdrawal(t) =>
               /\ t \in DOMAIN transactions'
               /\ transactions'[t] = transactions[t]
      ]_vars

\* C14 witness: a call on a withdrawal that is already completed has returned
\* False.
C14_Witness ==
    /\ last.op \in {"approve_withdrawal", "reject_withdrawal"}
    /\ last.ret = "False"
    /\ last.transaction_id \in DOMAIN transactions
    /\ transactions[last.transaction_id].type = "withdrawal"
    /\ transactions[last.transaction_id].status = "completed"

\* C15 (the claim as stated): after every process_deposit call, either a
\* completed deposit record of the amount was added and the balance was
\* credited by the amount, or no row was added and no balance changed.
C15_DepositBothOrNeither ==
    [][last'.op = "process_deposit" =>
         \/ /\ transactions' =
                 Append(transactions,
                        [user_id |-> last'.user_id, amount |-> last'.amount,
                         type |-> "deposit", status |-> "completed"])
            /\ users'[last'.user_id].points =
                 users[last'.user_id].points + last'.amount
         \/ /\ transactions' = transactions
            /\ users' = users
      ]_vars

\* C16: process_deposit with an amount <= 0, and process_withdrawal with an
\* amount <= 0 or above the balance, return no transaction id, add no row and
\* change no balance.
C16_InvalidAmountRejected ==
    [][(\/ last'.op = "process_deposit" /\ last'.amount <= 0
        \/ /\ last'.op = "process_withdrawal"
           /\ (last'.amount <= 0 \/ last'.amount > users[last'.user_id].points)) =>
         /\ last'.ret # "id"
         /\ last'.transaction_id = 0
         /\ transactions' = transactions
         /\ users' = users
      ]_vars

\* C16 witness: a withdrawal of more than the balance has been refused.
C16_Witness ==
    /\ last.op = "process_withdrawal"
    /\ last.amount > 0
    /\ last.amount > last.before
    /\ last.ret = "None"

\* C17 (the claim as stated): the fee computed at the request and at the
\* approval is floor(amount * fee_percentage / 100), net_amount is amount less
\* the fee, and the fee lies in 0..amount.
C17_FeeIsExactFloor ==
    last.op \in {"process_withdrawal", "approve_withdrawal"} =>
        /\ last.fee = fee_floor(last.amount, last.fee_percentage)
        /\ last.net_amount = last.amount - last.fee
        /\ 0 <= last.fee
        /\ last.fee <= last.amount

(***************************************************************************)
(* The registry of matches: besides the handlers of SpecXOBot, a match     *)
(* that waits for its second player can be cancelled, the board of a match *)
(* can be displayed, and moves can be submitted for any match identifier.  *)
(***************************************************************************)

\* The match waits for its second player.
WaitingForSecondPlayer(g) == ~g.against_bot /\ g.player2_id = None

\* handle_cancel refunding the wager and leaving the match in active_games.
handle_cancel_keeps_match(user, game_id) ==
    IF game_id \notin DOMAIN active_games
    THEN {[result |-> "absent", active_games |-> active_games, users |-> users]}
    ELSE LET g == active_games[game_id]
         IN  IF ~WaitingForSecondPlayer(g) \/ user # g.player1_id
             THEN {[result |-> "refused", active_games |-> active_games, users |-> users]}
             ELSE {[result |-> IF up.ok THEN "cancelled" ELSE "refund_failed",
                    active_games |-> active_games,
                    users |-> up.users] :
                      up \in update_user_points(users, user, g.bet_amount)}

\* handle_cancel (called at bot.py:384, not defined in bot.py), after
\* Cancellation: the creator of a match that waits for its second player gets
\* the wager back and the match leaves active_games; the refund may fail, and
\* then the match stays. Any other request changes nothing.
handle_cancel(user, game_id) ==
    IF game_id \notin DOMAIN active_games
    THEN {[result |-> "absent", active_games |-> active_games, users |-> users]}
    ELSE LET g == active_games[game_id]
         IN  IF ~WaitingForSecondPlayer(g) \/ user # g.player1_id
             THEN {[result |-> "refused", active_games |-> active_games, users |-> users]}
             ELSE {[result |-> IF up.ok THEN "cancelled" ELSE "refund_failed",
                    active_games |->
                        IF up.ok
                        THEN [i \in DOMAIN active_games \ {game_id} |-> active_games[i]]
                        ELSE active_games,
                    users |-> up.users] :
                      up \in update_user_points(users, user, g.bet_amount)}

\* A `cancel_<game_id>` callback (bot.py:381-386).
HandleCancel(user, game_id) ==
    /\ \E out \in handle_cancel(user, game_id) :
          /\ active_games' = out.active_games
          /\ users' = out.users
          /\ last' = BotCall("handle_cancel", game_id, out.result)
    /\ UNCHANGED <<game, games, transactions, calls>>

\* A `move_<game_id>_<position>` callback (bot.py:372-380) for an identifier
\* that is not in active_games: handle_move, after submitMove, finds no match
\* and changes nothing.
HandleMoveAbsent(user, game_id, position) ==
    /\ game_id \notin DOMAIN active_games
    /\ last' = BotCall("handle_move", game_id, "absent")
    /\ UNCHANGED <<game, bot_vars>>

\* bot.py:218-296 -- XOBot.show_game_board: returns at once for an identifier
\* that is not in active_games (lines 220-221), and otherwise reads the match
\* and sends the board.
ShowGameBoard(game_id) ==
    /\ last' = BotCall("show_game_board", game_id,
                       IF game_id \in DOMAIN active_games THEN "shown" ELSE "absent")
    /\ UNCHANGED <<game, bot_vars>>

NextRegistry ==
    \/ NextXOBot
    \/ \E user \in Players, game_id \in GameIds : HandleCancel(user, game_id)
    \/ \E user \in Players, game_id \in GameIds, position \in Cells :
          HandleMoveAbsent(user, game_id, position)
    \/ \E game_id \in GameIds : ShowGameBoard(game_id)

SpecRegistry == InitXOBot /\ [][NextRegistry]_vars

(***************************************************************************)
(* Properties of the registry                                              *)
(***************************************************************************)

\* The identifier was given to a match that has left active_games.
Evicted(game_id) ==
    game_id \in DOMAIN games /\ game_id \notin DOMAIN active_games

MatchesOf(user) ==
    {i \in DOMAIN games : user \in {games[i].player1_id, games[i].player2_id}}

\* C20: a handle_game_over call that changes a balance or a statistic finds
\* the identifier in active_games and removes it, and a removed identifier
\* never returns, so the calls for one identifier change the users table at
\* most once; and no participant has more results recorded than matches
\* played, nor a balance that differs from the initial one by more than one
\* wager for each of those matches.
C20_SettledAtMostOnce ==
    /\ [](\A u \in Users :
            /\ users[u].wins + users[u].losses + users[u].draws
                 <= Cardinality(MatchesOf(u))
            /\ users[u].points <= InitialPoints + MIN_BET * Cardinality(MatchesOf(u))
            /\ users[u].points >= InitialPoints - MIN_BET * Cardinality(MatchesOf(u)))
    /\ [][\A game_id \in GameIds :
            /\ (last'.op = "handle_game_over" /\ last'.game_id = game_id
                  /\ users' # users) =>
                    /\ game_id \in DOMAIN active_games
                    /\ game_id \notin DOMAIN active_games'
            /\ Evicted(game_id) => game_id \notin DOMAIN active_games'
         ]_vars

\* C20 witness: handle_game_over called again for a match between humans
\* whose transfer was made; the winner holds one wager more, with one win.
C20_Witness ==
    /\ last.op = "handle_game_over"
    /\ last.result = "absent"
    /\ Evicted(last.game_id)
    /\ games[last.game_id].winner_id \in Users
    /\ users[games[last.game_id].winner_id].points = InitialPoints + MIN_BET
    /\ users[games[last.game_id].winner_id].wins = 1

(***************************************************************************)
(* Properties of a settlement whose transfer fails                         *)
(***************************************************************************)

\* C21: when the ledger reports the transfer as failed during settlement, the
\* match stays over and stays in active_games, so that settlement can be
\* tried again, and no balance has changed.
C21_FailedTransferKeepsMatch ==
    [][\A game_id \in GameIds :
         (Settles(game_id) /\ last'.result = "transfer_failed") =>
            /\ game_id \in DOMAIN active_games'
            /\ active_games'[game_id].game_over
            /\ \A u \in Users : users'[u].points = users[u].points
      ]_vars

(***************************************************************************)
(* The admin callbacks of the dispatcher                                   *)
(***************************************************************************)

\* install.py:134-145 -- the installer inserts one user with is_admin TRUE;
\* every other row has the column's default, FALSE (database.py:73).
Admins == {"u3"}

\* database.py:283-287 -- Database.is_admin.
is_admin(user_id) == user_id \in Admins

\* Database.approve_withdrawal and Database.reject_withdrawal (called at
\* admin.py:91 and admin.py:100, not defined in database.py), after the
\* pipeline's approval and rejection of a withdrawal.
db_approve_withdrawal(transaction_id) == approve_withdrawal(transaction_id)

db_reject_withdrawal(transaction_id) == reject_withdrawal(transaction_id)

AdminActions == {"admin_approve", "admin_reject"}

\* admin.py:39-52 with admin.py:89-105 -- AdminPanel.handle_admin_callback
\* for the data admin_approve_<id> and admin_reject_<id>: the id is parsed
\* and handed to approve_withdrawal or reject_withdrawal. The callback's
\* sender is not looked at.
handle_admin_callback(user_id, data, transaction_id) ==
    IF data = "admin_approve"
    THEN db_approve_withdrawal(transaction_id)
    ELSE db_reject_withdrawal(transaction_id)

\* bot.py:387-388 -- button_callback hands every callback whose data starts
\* with admin_ to handle_admin_callback, whoever sent it.
AdminCallback(user_id, data, transaction_id) ==
    /\ data = "admin_approve" => Len(transactions) < MaxTransactions
    /\ data = "admin_reject" => PointsOf(OwnerOf(transaction_id)) <= MaxPoints
    /\ \E out \in handle_admin_callback(user_id, data, transaction_id) :
          /\ users' = out.users
          /\ transactions' = out.transactions
          /\ last' = PayCall(data, user_id, 0, transaction_id, out.ret,
                             PointsOf(OwnerOf(transaction_id)))
    /\ UNCHANGED <<game, active_games, games, calls>>

NextAdmin ==
    \/ \E user_id \in Payers, amount \in AmountArgs : ProcessWithdrawal(user_id, amount)
    \/ \E user_id \in Users, data \in AdminActions, transaction_id \in TransactionIds :
          AdminCallback(user_id, data, transaction_id)

SpecAdmin == InitPayment /\ [][NextAdmin]_vars

\* C22: a withdrawal record leaves the pending status only in an approve or
\* reject callback sent by a participant whose admin flag is set, and such a
\* callback sent by a participant without the flag changes no record and no
\* balance.
C22_OnlyAdminsDecide ==
    [][/\ \A transaction_id \in TransactionIds :
            (/\ IsPendingWithdrawal(transaction_id)
             /\ transactions'[transaction_id].status # "pending") =>
               /\ last'.op \in AdminActions
               /\ is_admin(last'.user_id)
       /\ (last'.op \in AdminActions /\ ~is_admin(last'.user_id)) =>
            /\ transactions' = transactions
            /\ users' = users
      ]_vars

(***************************************************************************)
(* Payment calls that overlap: each call advances one ledger statement at   *)
(* a time, and nothing in payment.py or database.py keeps another call out  *)
(* between two statements of one call.                                      *)
(***************************************************************************)

MaxCalls == 2

OverlapAmounts == {0, 40, 60}

\* A call in progress: its arguments, the statement it is about to run, the
\* id it was given by record_transaction and what it has returned.
PaymentCall(op, user_id, amount, pc, transaction_id, ret) ==
    [op |-> op, user_id |-> user_id, amount |-> amount, pc |-> pc,
     transaction_id |-> transaction_id, ret |-> ret]

Returned(call, transaction_id, ret) ==
    [call EXCEPT !.pc = "done", !.transaction_id = transaction_id, !.ret = ret]

\* payment.py:20-21 and payment.py:44-45 -- a call begins; an amount that is
\* not positive returns None at once.
CallPayment(op, user_id, amount) ==
    /\ Len(calls) < MaxCalls
    /\ calls' = Append(calls,
                       IF amount <= 0
                       THEN PaymentCall(op, user_id, amount, "done", 0, "None")
                       ELSE PaymentCall(op, user_id, amount,
                                        IF op = "process_withdrawal"
                                        THEN "check" ELSE "record", 0, ""))
    /\ last' = PayCall(op, user_id, amount, 0, IF amount <= 0 THEN "None" ELSE "",
                       users[user_id].points)
    /\ UNCHANGED <<game, active_games, users, games, transactions>>

\* payment.py:48-50 -- process_withdrawal reads the balance and compares it
\* with the amount; get_user_points raises when the query fails.
CheckBalance(c) ==
    /\ c \in DOMAIN calls
    /\ calls[c].pc = "check"
    /\ \E ret \in {"raised"} \cup
                  (IF users[calls[c].user_id].points < calls[c].amount
                   THEN {"None"} ELSE {""}) :
          /\ calls' = [calls EXCEPT ![c] = IF ret = ""
                                           THEN [@ EXCEPT !.pc = "record"]
                                           ELSE Returned(@, 0, ret)]
          /\ last' = PayCall(calls[c].op, calls[c].user_id, calls[c].amount, 0,
                             ret, users[calls[c].user_id].points)
    /\ UNCHANGED <<game, active_games, users, games, transactions>>

\* payment.py:24-34 and payment.py:57-67 -- the record is written: a
\* completed deposit, or a pending withdrawal.
RecordPayment(c) ==
    /\ c \in DOMAIN calls
    /\ calls[c].pc = "record"
    /\ \E rec \in record_transaction(
                    transactions, calls[c].user_id, calls[c].amount,
                    IF calls[c].op = "process_deposit" THEN "deposit" ELSE "withdrawal",
                    IF calls[c].op = "process_deposit" THEN "completed" ELSE "pending") :
          /\ transactions' = rec.transactions
          /\ calls' = [calls EXCEPT ![c] = IF rec.id = 0
                                           THEN Returned(@, 0, "None")
                                           ELSE [@ EXCEPT !.pc = "update",
                                                          !.transaction_id = rec.id]]
          /\ last' = PayCall(calls[c].op, calls[c].user_id, calls[c].amount, rec.id,
                             IF rec.id = 0 THEN "None" ELSE "",
                             users[calls[c].user_id].points)
    /\ UNCHANGED <<game, active_games, users, games>>

\* payment.py:37-40 and payment.py:70-73 -- the balance is credited by a
\* deposit, debited by a withdrawal, in one UPDATE (database.py:152-159), and
\* the call returns.
AdjustBalance(c) ==
    /\ c \in DOMAIN calls
    /\ calls[c].pc = "update"
    /\ \E up \in update_user_points(
                   users, calls[c].user_id,
                   IF calls[c].op = "process_deposit"
                   THEN calls[c].amount ELSE 0 - calls[c].amount) :
          /\ users' = up.users
          /\ calls' = [calls EXCEPT ![c] =
                         IF up.ok THEN Returned(@, @.transaction_id, "id")
                         ELSE Returned(@, 0, "None")]
          /\ last' = PayCall(calls[c].op, calls[c].user_id, calls[c].amount,
                             IF up.ok THEN calls[c].transaction_id ELSE 0,
                             IF up.ok THEN "id" ELSE "None",
                             users[calls[c].user_id].points)
    /\ UNCHANGED <<game, active_games, games, transactions>>

CallIds == 1..MaxCalls

NextOverlap ==
    \/ \E user_id \in Payers, amount \in OverlapAmounts :
          CallPayment("process_deposit", user_id, amount)
    \/ \E user_id \in Payers, amount \in OverlapAmounts :
          CallPayment("process_withdrawal", user_id, amount)
    \/ \E c \in CallIds : CheckBalance(c)
    \/ \E c \in CallIds : RecordPayment(c)
    \/ \E c \in CallIds : AdjustBalance(c)

SpecOverlap == InitPayment /\ [][NextOverlap]_vars

\* What the calls that have returned an id have added to a participant's
\* balance: the deposits, less the withdrawals.
RECURSIVE AppliedBy(_, _)
AppliedBy(user_id, n) ==
    IF n = 0 THEN 0
    ELSE AppliedBy(user_id, n - 1) +
         IF calls[n].user_id = user_id /\ calls[n].ret = "id"
         THEN IF calls[n].op = "process_deposit"
              THEN calls[n].amount ELSE 0 - calls[n].amount
         ELSE 0

\* C23: however the statements of process_withdrawal and process_deposit calls
\* for one participant interleave, the balance check and the hold act as one
\* step: every accepted withdrawal is at most the balance it is debited from,
\* so no balance is ever negative, and no credit or debit is lost.
C23_CheckAndHoldAtomic ==
    \A u \in Payers :
       /\ users[u].points >= 0
       /\ users[u].points = InitialPoints + AppliedBy(u, Len(calls))

(***************************************************************************)
(* make_move calls that overlap on one match object: each call advances     *)
(* one statement of game_logic.py:18-29 at a time, and nothing in            *)
(* game_logic.py or bot.py keeps another call out between two statements.    *)
(***************************************************************************)

\* The cells the overlapping submissions name.
TapPositions == {0, 1}

MoveCall(position, symbol, pc, ret) ==
    [op |-> "make_move", position |-> position, symbol |-> symbol,
     pc |-> pc, ret |-> ret]

\* bot.py:372-380 -- a move_ callback reaches make_move of the match.
SubmitMove(position, symbol) ==
    /\ Len(calls) < MaxCalls
    /\ calls' = Append(calls, MoveCall(position, symbol, "validate", ""))
    /\ last' = [op |-> "submit", position |-> position, symbol |-> symbol,
                accepted |-> FALSE, played |-> {}, branch |-> ""]
    /\ UNCHANGED <<game, active_games, users, games, transactions>>

\* game_logic.py:18-19 -- the test of make_move; a call that fails it returns
\* False.
ValidateMove(c) ==
    /\ c \in DOMAIN calls
    /\ calls[c].pc = "validate"
    /\ LET rejected == \/ game.game_over
                       \/ ~(0 <= calls[c].position /\ calls[c].position < 9)
                       \/ game.board[calls[c].position] # Empty
                       \/ calls[c].symbol # game.current_turn
       IN  /\ calls' = [calls EXCEPT ![c] =
                          IF rejected THEN [@ EXCEPT !.pc = "done", !.ret = "False"]
                          ELSE [@ EXCEPT !.pc = "write"]]
           /\ last' = [op |-> "validate", position |-> calls[c].position,
                       symbol |-> calls[c].symbol, accepted |-> ~rejected,
                       played |-> {}, branch |-> ""]
    /\ UNCHANGED <<game, active_games, users, games, transactions>>

\* game_logic.py:21 -- self.board[position] = symbol.
WriteMark(c) ==
    /\ c \in DOMAIN calls
    /\ calls[c].pc = "write"
    /\ game' = [game EXCEPT !.board[calls[c].position] = calls[c].symbol]
    /\ calls' = [calls EXCEPT ![c].pc = "turn"]
    /\ last' = [op |-> "write", position |-> calls[c].position,
                symbol |-> calls[c].symbol, accepted |-> TRUE,
                played |-> {}, branch |-> ""]
    /\ UNCHANGED <<active_games, users, games, transactions>>

\* game_logic.py:22 -- self.current_turn = 'O' if symbol == 'X' else 'X'.
FlipTurn(c) ==
    /\ c \in DOMAIN calls
    /\ calls[c].pc = "turn"
    /\ game' = [game EXCEPT !.current_turn = IF calls[c].symbol = "X" THEN "O" ELSE "X"]
    /\ calls' = [calls EXCEPT ![c].pc = "winner"]
    /\ last' = [op |-> "turn", position |-> calls[c].position,
                symbol |-> calls[c].symbol, accepted |-> TRUE,
                played |-> {}, branch |-> ""]
    /\ UNCHANGED <<active_games, users, games, transactions>>

\* game_logic.py:25-29 -- the winner is recomputed, game_over is set when
\* there is one or the board is full, and the call returns True.
FinishMove(c) ==
    /\ c \in DOMAIN calls
    /\ calls[c].pc = "winner"
    /\ LET winner == check_winner(game.board)
       IN  game' = [game EXCEPT
                      !.winner    = winner,
                      !.game_over = @ \/ winner # None \/ is_board_full(game.board)]
    /\ calls' = [calls EXCEPT ![c] = [@ EXCEPT !.pc = "done", !.ret = "True"]]
    /\ last' = [op |-> "make_move", position |-> calls[c].position,
                symbol |-> calls[c].symbol, accepted |-> TRUE,
                played |-> {}, branch |-> ""]
    /\ UNCHANGED <<active_games, users, games, transactions>>

NextTaps ==
    \/ \E position \in TapPositions, symbol \in Marks : SubmitMove(position, symbol)
    \/ \E c \in CallIds : ValidateMove(c)
    \/ \E c \in CallIds : WriteMark(c)
    \/ \E c \in CallIds : FlipTurn(c)
    \/ \E c \in CallIds : FinishMove(c)

SpecTaps == Init /\ [][NextTaps]_vars

\* The calls that have run the assignment to current_turn of make_move.
FlippedTaps == {c \in DOMAIN calls : calls[c].pc \in {"winner", "done"} /\ calls[c].ret # "False"}

\* C24: of two submissions with the same symbol for the same turn of one
\* match, however their validation and their writes interleave, at most one
\* is applied: the board gains at most one mark, current_turn is assigned at
\* most once, and the two calls do not both return True.
C24_DoubleTapAppliedOnce ==
    \A c, d \in DOMAIN calls :
       (c # d /\ calls[c].symbol = calls[d].symbol) =>
          /\ Cardinality(FlippedTaps) <= 1
          /\ Cardinality({i \in Cells : game.board[i] # Empty}) <= 1
          /\ ~(calls[c].ret = "True" /\ calls[d].ret = "True")

(***************************************************************************)
(* bot_move statement by statement: what a reader of the match's board can  *)
(* see while the search runs.                                               *)
(***************************************************************************)

\* The locals of a bot_move call in its search loop (game_logic.py:69-80),
\* with the board the call found when it began.
SearchCall(pc, i, score_i, best_score, best_move, start) ==
    [op |-> "bot_move", pc |-> pc, i |-> i, score |-> score_i,
     best_score |-> best_score, best_move |-> best_move, start |-> start]

SearchStep(op, played, branch) ==
    [op |-> op, position |-> 0, symbol |-> "", accepted |-> FALSE,
     played |-> played, branch |-> branch]

\* game_logic.py:61-70 -- bot_move begins: it returns None when its guard
\* fails, may return a random empty cell in the opening, and otherwise enters
\* the loop with best_score = -inf and best_move = None.
CallBotMove ==
    /\ calls = <<>>
    /\ \/ /\ ~game.against_bot \/ game.current_turn # "O" \/ game.game_over
          /\ last' = SearchStep("bot_move", {}, "guard")
          /\ UNCHANGED calls
       \/ /\ game.against_bot /\ game.current_turn = "O" /\ ~game.game_over
          /\ Count(game.board, Empty) >= 8
          /\ \E p \in empty_positions(game.board) :
                last' = SearchStep("bot_move", {p}, "random")
          /\ UNCHANGED calls
       \/ /\ game.against_bot /\ game.current_turn = "O" /\ ~game.game_over
          /\ calls' = <<SearchCall("loop", 0, 0, NegInf, {}, game.board)>>
          /\ last' = SearchStep("enter", {}, "search")
    /\ UNCHANGED <<game, active_games, users, games, transactions>>

\* game_logic.py:72-74 -- the loop reaches cell i: an empty cell gets the
\* trial mark, self.board[i] = 'O', on the match's own list.
TryCell(c) ==
    /\ c \in DOMAIN calls
    /\ calls[c].pc = "loop"
    /\ calls[c].i < 9
    /\ IF game.board[calls[c].i] = Empty
       THEN /\ game' = [game EXCEPT !.board[calls[c].i] = "O"]
            /\ calls' = [calls EXCEPT ![c].pc = "score"]
       ELSE /\ game' = game
            /\ calls' = [calls EXCEPT ![c].i = @ + 1]
    /\ last' = SearchStep("try", {calls[c].i}, "search")
    /\ UNCHANGED <<active_games, users, games, transactions>>

\* game_logic.py:75 -- score = self.minimax(self.board, 0, False). minimax
\* puts its own trial marks on the list it is given, which is the match's
\* list, and takes each off again (lines 107-109, 116-118), so the list is
\* the same after the call as before it.
ScoreCell(c) ==
    /\ c \in DOMAIN calls
    /\ calls[c].pc = "score"
    /\ calls' = [calls EXCEPT ![c] = [@ EXCEPT !.pc = "restore",
                                               !.score = minimax(game.board, 0, FALSE)]]
    /\ last' = SearchStep("score", {calls[c].i}, "search")
    /\ UNCHANGED <<game, active_games, users, games, transactions>>

\* game_logic.py:76-80 -- the trial mark is taken off, and a score above
\* best_score replaces best_score and best_move.
RestoreCell(c) ==
    /\ c \in DOMAIN calls
    /\ calls[c].pc = "restore"
    /\ game' = [game EXCEPT !.board[calls[c].i] = Empty]
    /\ calls' = [calls EXCEPT ![c] =
                   IF @.score > @.best_score
                   THEN [@ EXCEPT !.pc = "loop", !.i = @ + 1,
                                  !.best_score = calls[c].score,
                                  !.best_move = {calls[c].i}]
                   ELSE [@ EXCEPT !.pc = "loop", !.i = @ + 1]]
    /\ last' = SearchStep("restore", {calls[c].i}, "search")
    /\ UNCHANGED <<active_games, users, games, transactions>>

\* game_logic.py:82-86 -- after the loop: best_move is played with make_move
\* and returned, or None is returned.
PlayBest(c) ==
    /\ c \in DOMAIN calls
    /\ calls[c].pc = "loop"
    /\ calls[c].i >= 9
    /\ game' = IF calls[c].best_move # {}
               THEN make_move(game, CHOOSE i \in calls[c].best_move : TRUE, "O").game
               ELSE game
    /\ calls' = <<>>
    /\ last' = SearchStep("bot_move", calls[c].best_move,
                          IF calls[c].best_move # {} THEN "search" ELSE "none")
    /\ UNCHANGED <<active_games, users, games, transactions>>

\* The human's move, made between two bot_move calls.
HumanMove(position) ==
    /\ calls = <<>>
    /\ MakeMove(position, "X")

NextSearchSteps ==
    \/ \E position \in Cells : HumanMove(position)
    \/ CallBotMove
    \/ \E c \in CallIds : TryCell(c)
    \/ \E c \in CallIds : ScoreCell(c)
    \/ \E c \in CallIds : RestoreCell(c)
    \/ \E c \in CallIds : PlayBest(c)

SpecSearchSteps == InitBotMatch /\ [][NextSearchSteps]_vars

\* C25: the search works on a private copy: while a bot_move call is in
\* progress, at every step of it, the match's own board is the board the
\* call found when it began.
C25_SearchLeavesBoardAlone ==
    \A c \in DOMAIN calls : game.board = calls[c].start

(***************************************************************************)
(* Properties of game_over, winner and current_turn                        *)
(***************************************************************************)

\* C26: in every state reached through make_move and bot_move, game_over is
\* true exactly when the board has a complete line or no empty cell, and
\* winner is the mark of the complete line, None when there is none (a draw
\* is game_over with winner None).
C26_OverIffLineOrFull ==
    /\ game.game_over <=>
         (CompleteMarks(game.board) # {} \/ empty_positions(game.board) = {})
    /\ \A m \in Marks : game.winner = m <=> m \in CompleteMarks(game.board)
    /\ game.winner = None <=> CompleteMarks(game.board) = {}

\* C26 witness: a draw, the board full without a complete line.
C26_Witness ==
    /\ game.game_over
    /\ game.winner = None
    /\ empty_positions(game.board) = {}
    /\ CompleteMarks(game.board) = {}

\* C27: an accepted move flips current_turn only when it does not end the
\* game; after an accepted move that completes a line or fills the board,
\* current_turn still names the mark that made the move.
C27_TurnKeptAtGameEnd ==
    [][(last'.op = "make_move" /\ last'.accepted) =>
         IF game'.game_over
         THEN game'.current_turn = last'.symbol
         ELSE game'.current_turn # last'.symbol
      ]_vars

\* C28: winner is None in every state where game_over is false; in the step
\* in which game_over becomes true winner takes the value it has from then on
\* (the mark of the line just completed, None for a draw); and once game_over
\* is true winner never changes.
C28_WinnerSetOnceAtEnd ==
    /\ [](~game.game_over => game.winner = None)
    /\ [][/\ (~game.game_over /\ game'.game_over) =>
               /\ game'.winner = check_winner(game'.board)
               /\ game.winner = None
          /\ game.game_over => (game'.game_over /\ game'.winner = game.winner)
         ]_vars

\* C28 witness: a match won by O, winner O, on which a later call was made.
C28_Witness ==
    /\ game.game_over
    /\ game.winner = "O"
    /\ last.op = "make_move"
    /\ ~last.accepted

(***************************************************************************)
(* bot_move on every board on which it can reach its search                *)
(***************************************************************************)

\* A bot match in which X has moved and O is to move, on one of the boards
\* without a complete line and with an empty cell (every such board is
\* reached by make_move calls from the new match, its marks placed in turn).
InitSearch ==
    /\ game \in {[XOGame("u1", None, Bet, TRUE) EXCEPT
                    !.board = b, !.current_turn = "O"] : b \in SearchBoards}
    /\ last = NoCall
    /\ InitBot

NextSearch == BotMove

SpecSearch == InitSearch /\ [][NextSearch]_vars

\* Mark m holds a complete line of the board.
HasLine(board, m) == \E l \in WinLines : \A i \in l : board[i] = m

\* The value of a position, the side to move read off the board (X began, so
\* O is to move when an even number of cells is empty): 10 - depth for a
\* complete O line, depth - 10 for a complete X line, 0 for a full board
\* without a line, and otherwise the greatest value of the children when O is
\* to move and the least when X is.
RECURSIVE Value(_, _)
Value(board, depth) ==
    IF HasLine(board, "O") THEN 10 - depth
    ELSE IF HasLine(board, "X") THEN depth - 10
    ELSE LET empties  == {j \in Cells : board[j] = Empty}
             mover    == IF Cardinality(empties) % 2 = 0 THEN "O" ELSE "X"
             children == {Value([board EXCEPT ![i] = mover], depth + 1) : i \in empties}
         IN  IF empties = {} THEN 0
             ELSE IF mover = "O"
             THEN CHOOSE v \in children : \A w \in children : w <= v
             ELSE CHOOSE v \in children : \A w \in children : w >= v

\* The value of each empty cell as O's candidate, depth 0 right after it.
CandidateValues(board) ==
    [i \in {j \in Cells : board[j] = Empty} |->
        Value([board EXCEPT ![i] = "O"], 0)] @@ <<>>

\* The reference choice: the lowest-index empty cell of maximal value.
ReferenceChoice(board) ==
    LET v == CandidateValues(board)
    IN  {i \in DOMAIN v : \A j \in DOMAIN v : v[j] < v[i] \/ (v[j] = v[i] /\ i <= j)}

\* C29: on its search branch bot_move plays the reference choice: it returns
\* the lowest-index empty cell whose minimax value is maximal and puts O on
\* that cell and on no other.
C29_PlaysReferenceChoice ==
    [][(last'.op = "bot_move" /\ last'.branch = "search") =>
         /\ last'.played = ReferenceChoice(game.board)
         /\ \E p \in last'.played : game'.board = [game.board EXCEPT ![p] = "O"]
      ]_vars

\* C29 witness: the search has played a cell that shares the maximal value
\* with a later cell, so the choice rested on the order of the cells.
C29_Witness ==
    /\ last.op = "bot_move"
    /\ last.branch = "search"
    /\ \E p \in last.played :
          /\ game.board[p] = "O"
          /\ LET v == CandidateValues([game.board EXCEPT ![p] = Empty])
             IN  \E j \in DOMAIN v : j > p /\ v[j] = v[p]

\* The match of another participant and another wager on the same board.
SameBoardElsewhere(g) == [g EXCEPT !.player1_id = "u2", !.bet_amount = MAX_BET]

\* C30: the choice of bot_move is open only in the opening. With 7 or fewer
\* empty cells every run of bot_move from the same board, in this match or in
\* another, returns what this call returned; and the random choice is made
\* only with 8 or 9 empty cells and is one of the empty cells.
C30_RandomOnlyInOpening ==
    [][last'.op = "bot_move" =>
         /\ Count(game.board, Empty) <= 7 =>
              \A o \in bot_move(game) \cup bot_move(SameBoardElsewhere(game)) :
                 o.ret = last'.played
         /\ last'.branch = "random" =>
              /\ Count(game.board, Empty) >= 8
              /\ Cardinality(last'.played) = 1
              /\ last'.played \subseteq empty_positions(game.board)
      ]_vars

\* C30 witness: with 8 empty cells bot_move has returned a random choice, an
\* empty cell other than the one the search plays.
C30_Witness ==
    /\ last.op = "bot_move"
    /\ last.branch = "random"
    /\ Count(game.board, Empty) = 8
    /\ last.played \subseteq empty_positions(game.board)
    /\ last.played # best_move_of[game.board]

(***************************************************************************)
(* Properties of a match that waits for its second player                  *)
(***************************************************************************)

\* C31: while a match between humans has no second player, every make_move
\* call is refused and the board stays as it is.
C31_NoMoveWhileWaiting ==
    [][(~game.against_bot /\ game.player2_id = None) =>
         /\ last'.op = "make_move" => ~last'.accepted
         /\ game'.board = game.board
      ]_vars

(***************************************************************************)
(* Matches and withdrawals of the same participants                        *)
(***************************************************************************)

\* The amount a player asks to withdraw: the whole initial balance.
WagerWithdrawals == {InitialPoints}

NextWager ==
    \/ NextXOBot
    \/ \E user_id \in Players, amount \in WagerWithdrawals :
          ProcessWithdrawal(user_id, amount)

SpecWager == InitXOBot /\ [][NextWager]_vars

\* C32: the wager of an active match is backed by its players' funds: when a
\* finished match between humans with a winner is settled, the losing seat
\* holds at least the wager, and no balance is below zero after the
\* settlement.
C32_WagerIsBacked ==
    [][\A game_id \in GameIds :
         (/\ Settles(game_id)
          /\ active_games[game_id].game_over
          /\ ~active_games[game_id].against_bot
          /\ active_games[game_id].winner \in Marks) =>
            /\ users[LosingSeat(active_games[game_id])].points
                 >= active_games[game_id].bet_amount
            /\ \A u \in Users : users'[u].points >= 0
      ]_vars

(***************************************************************************)
(* Properties of the fee records                                           *)
(***************************************************************************)

\* The withdrawal rows of a table in a given status.
WithdrawalsIn(table, status) ==
    {i \in DOMAIN table : table[i].type = "withdrawal" /\ table[i].status = status}

\* C33: in every ledger state each completed withdrawal has exactly one fee
\* record, completed and of the fee of that withdrawal's amount, and no
\* pending or rejected withdrawal has one: there are as many fee records as
\* completed withdrawals, and each is the completed fee of one of them.
C33_OneFeePerCompleted ==
    /\ Cardinality(FeeRecords(transactions))
         = Cardinality(WithdrawalsIn(transactions, "completed"))
    /\ \A f \in FeeRecords(transactions) :
          /\ transactions[f].status = "completed"
          /\ \E w \in WithdrawalsIn(transactions, "completed") :
                /\ transactions[w].user_id = transactions[f].user_id
                /\ transactions[f].amount
                     = fee_of(transactions[w].amount, TRANSACTION_FEE)

(***************************************************************************)
(* Admin decisions that overlap: each approve_withdrawal or                 *)
(* reject_withdrawal call advances one ledger statement at a time.          *)
(***************************************************************************)

\* A decision in progress: the call, the statement it is about to run,
\* whether its ledger write (the fee record, the refund) has been made, and
\* what it has returned.
DecisionCall(op, transaction_id, pc, wrote, ret) ==
    [op |-> op, transaction_id |-> transaction_id, pc |-> pc,
     wrote |-> wrote, ret |-> ret]

Decisions == {"approve_withdrawal", "reject_withdrawal"}

\* payment.py:75 and payment.py:95 -- a decision begins.
CallDecision(op, transaction_id) ==
    /\ Len(calls) < MaxCalls
    /\ calls' = Append(calls, DecisionCall(op, transaction_id, "read", FALSE, ""))
    /\ last' = PayCall(op, OwnerOf(transaction_id), 0, transaction_id, "",
                       PointsOf(OwnerOf(transaction_id)))
    /\ UNCHANGED <<game, active_games, users, games, transactions>>

\* payment.py:77-79 and payment.py:97-99 -- the record is read and tested; a
\* call that does not find a pending withdrawal returns False.
ReadStatus(c) ==
    /\ c \in DOMAIN calls
    /\ calls[c].op \in Decisions
    /\ calls[c].pc = "read"
    /\ LET refused == not_pending_withdrawal(get_transaction(calls[c].transaction_id))
       IN  /\ calls' = [calls EXCEPT ![c] =
                          IF refused THEN [@ EXCEPT !.pc = "done", !.ret = "False"]
                          ELSE [@ EXCEPT !.pc = "ledger"]]
           /\ last' = PayCall(calls[c].op, OwnerOf(calls[c].transaction_id), 0,
                              calls[c].transaction_id,
                              IF refused THEN "False" ELSE "",
                              PointsOf(OwnerOf(calls[c].transaction_id)))
    /\ UNCHANGED <<game, active_games, users, games, transactions>>

\* payment.py:82-90 -- approve_withdrawal writes the fee record and goes on
\* whatever record_transaction returned.
WriteFee(c) ==
    /\ c \in DOMAIN calls
    /\ calls[c].op = "approve_withdrawal"
    /\ calls[c].pc = "ledger"
    /\ LET transaction == transactions[calls[c].transaction_id]
       IN  \E rec \in record_transaction(
                        transactions, transaction.user_id,
                        fee_of(transaction.amount, TRANSACTION_FEE),
                        "fee", "completed") :
              /\ transactions' = rec.transactions
              /\ calls' = [calls EXCEPT ![c] = [@ EXCEPT !.pc = "status",
                                                         !.wrote = (rec.id # 0)]]
    /\ last' = PayCall(calls[c].op, OwnerOf(calls[c].transaction_id), 0,
                       calls[c].transaction_id, "",
                       PointsOf(OwnerOf(calls[c].transaction_id)))
    /\ UNCHANGED <<game, active_games, users, games>>

\* payment.py:101-103 -- reject_withdrawal credits the amount back and
\* returns False when that fails.
Refund(c) ==
    /\ c \in DOMAIN calls
    /\ calls[c].op = "reject_withdrawal"
    /\ calls[c].pc = "ledger"
    /\ LET transaction == transactions[calls[c].transaction_id]
       IN  \E up \in update_user_points(users, transaction.user_id,
                                        transaction.amount) :
              /\ users' = up.users
              /\ calls' = [calls EXCEPT ![c] =
                             IF up.ok THEN [@ EXCEPT !.pc = "status", !.wrote = TRUE]
                             ELSE [@ EXCEPT !.pc = "done", !.ret = "False"]]
              /\ last' = PayCall(calls[c].op, transaction.user_id, 0,
                                 calls[c].transaction_id,
                                 IF up.ok THEN "" ELSE "False",
                                 users[transaction.user_id].points)
    /\ UNCHANGED <<game, active_games, games, transactions>>

\* payment.py:93 and payment.py:106 -- the status is set, completed by
\* approve and rejected by reject, and the call returns what
\* update_transaction_status returned.
SetStatus(c) ==
    /\ c \in DOMAIN calls
    /\ calls[c].op \in Decisions
    /\ calls[c].pc = "status"
    /\ \E st \in update_transaction_status(
                   transactions, calls[c].transaction_id,
                   IF calls[c].op = "approve_withdrawal"
                   THEN "completed" ELSE "rejected") :
          /\ transactions' = st.transactions
          /\ calls' = [calls EXCEPT ![c] =
                         [@ EXCEPT !.pc = "done",
                                   !.ret = IF st.ok THEN "True" ELSE "False"]]
          /\ last' = PayCall(calls[c].op, OwnerOf(calls[c].transaction_id), 0,
                             calls[c].transaction_id,
                             IF st.ok THEN "True" ELSE "False",
                             PointsOf(OwnerOf(calls[c].transaction_id)))
    /\ UNCHANGED <<game, active_games, users, games>>

\* The withdrawals are requested before the decisions begin.
RequestWithdrawal(user_id, amount) ==
    /\ calls = <<>>
    /\ ProcessWithdrawal(user_id, amount)

NextDecisions ==
    \/ \E user_id \in Payers, amount \in AmountArgs : RequestWithdrawal(user_id, amount)
    \/ \E op \in Decisions, transaction_id \in TransactionIds :
          CallDecision(op, transaction_id)
    \/ \E c \in CallIds : ReadStatus(c)
    \/ \E c \in CallIds : WriteFee(c)
    \/ \E c \in CallIds : Refund(c)
    \/ \E c \in CallIds : SetStatus(c)

SpecDecisions == InitPayment /\ [][NextDecisions]_vars

\* The calls of a decision on a withdrawal that have made their ledger write.
Wrote(op, transaction_id) ==
    {c \in DOMAIN calls : /\ calls[c].op = op
                          /\ calls[c].transaction_id = transaction_id
                          /\ calls[c].wrote}

\* C34: of the approve_withdrawal and reject_withdrawal calls that run at the
\* same time on one pending withdrawal, however their statements interleave,
\* one takes effect: at most one returns True, the held amount is refunded at
\* most once, and a refunded withdrawal has no fee record and is not
\* completed.
C34_OneDecisionTakesEffect ==
    \A transaction_id \in DOMAIN transactions :
       /\ Cardinality({c \in DOMAIN calls :
                          /\ calls[c].transaction_id = transaction_id
                          /\ calls[c].ret = "True"}) <= 1
       /\ Cardinality(Wrote("reject_withdrawal", transaction_id)) <= 1
       /\ Wrote("reject_withdrawal", transaction_id) # {} =>
            /\ Wrote("approve_withdrawal", transaction_id) = {}
            /\ transactions[transaction_id].status # "completed"

(***************************************************************************)
(* The payment callbacks of the dispatcher                                 *)
(***************************************************************************)

\* bot.py:459-488 with bot.py:329-388 -- /deposit <amount> with a positive
\* amount offers one button per payment method, its data
\* deposit_<method>_<amount>; button_callback has no branch for data that
\* starts with deposit_, so pressing the button runs nothing.
DepositCallback(user_id, amount) ==
    /\ amount > 0
    /\ last' = PayCall("deposit_callback", user_id, amount, 0, "unhandled",
                       users[user_id].points)
    /\ UNCHANGED <<game, bot_vars>>

\* bot.py:490-531 with bot.py:329-388 -- /withdraw <amount> with a positive
\* amount within the balance offers buttons with the data
\* withdraw_<method>_<amount>, for which button_callback has no branch
\* either.
WithdrawCallback(user_id, amount) ==
    /\ amount > 0
    /\ users[user_id].points >= amount
    /\ last' = PayCall("withdraw_callback", user_id, amount, 0, "unhandled",
                       users[user_id].points)
    /\ UNCHANGED <<game, bot_vars>>

NextDispatch ==
    \/ NextAdmin
    \/ \E user_id \in Payers, amount \in AmountArgs : DepositCallback(user_id, amount)
    \/ \E user_id \in Payers, amount \in AmountArgs : WithdrawCallback(user_id, amount)

SpecDispatch == InitPayment /\ [][NextDispatch]_vars

\* C35: the dispatcher reaches the pipeline: the callback of a payment
\* method button is a run of process_deposit or of process_withdrawal for the
\* chosen amount, and an admin's approve (reject) callback for a pending
\* withdrawal leaves that record completed (rejected).
C35_DispatcherReachesPipeline ==
    [][/\ last'.op = "deposit_callback" =>
            \E out \in process_deposit(last'.user_id, last'.amount) :
               /\ last'.ret = out.ret
               /\ users' = out.users
               /\ transactions' = out.transactions
       /\ last'.op = "withdraw_callback" =>
            \E out \in process_withdrawal(last'.user_id, last'.amount) :
               /\ last'.ret = out.ret
               /\ users' = out.users
               /\ transactions' = out.transactions
       /\ (/\ last'.op \in AdminActions
           /\ is_admin(last'.user_id)
           /\ IsPendingWithdrawal(last'.transaction_id)) =>
              transactions'[last'.transaction_id].status
                = IF last'.op = "admin_approve" THEN "completed" ELSE "rejected"
      ]_vars

(***************************************************************************)
(* The balance against the records                                         *)
(***************************************************************************)

\* What the first n records say a participant's balance has gained: the
\* completed deposits, less the withdrawals that are pending or completed.
RECURSIVE RecordedFor(_, _)
RecordedFor(user_id, n) ==
    IF n = 0 THEN 0
    ELSE RecordedFor(user_id, n - 1) +
         IF transactions[n].user_id # user_id THEN 0
         ELSE IF /\ transactions[n].type = "deposit"
                 /\ transactions[n].status = "completed"
              THEN transactions[n].amount
         ELSE IF /\ transactions[n].type = "withdrawal"
                 /\ transactions[n].status \in {"pending", "completed"}
              THEN 0 - transactions[n].amount
         ELSE 0

\* C36: in every ledger state, those after a failed ledger call included,
\* each participant's balance is the initial balance plus the completed
\* deposits minus the pending and completed withdrawals: every pending
\* withdrawal is held in full and every rejected one has been refunded once.
C36_BalanceMatchesRecords ==
    \A u \in Users :
       users[u].points = InitialPoints + RecordedFor(u, Len(transactions))

(***************************************************************************)
(* A match played to its end: the side to move keeps submitting moves       *)
(***************************************************************************)

\* The side to move submits a cell with its own mark: either seat in a match
\* between humans, X in a match against the bot.
Submit(position) ==
    /\ ~game.against_bot \/ game.current_turn = "X"
    /\ MakeMove(position, game.current_turn)

\* A submission that make_move accepts.
LegalMove == \E position \in Cells : Submit(position) /\ last'.accepted

NextPlayed ==
    \/ \E position \in Cells : Submit(position)
    \/ BotMove

\* Weak fairness on the legal submissions of the side to move and on the
\* bot_move calls.
SpecPlayed ==
    /\ Init
    /\ [][NextPlayed]_vars
    /\ WF_vars(LegalMove)
    /\ WF_vars(BotMove)

====
